---- MODULE Spec2Model ----
(***************************************************************************)
(* Model of the interactive pull-request workflow of gen-mr                *)
(* (src/src/workflow.mjs) with the helpers it calls: the existing-request  *)
(* lookup and the create-or-update dispatch (src/src/github-utils.mjs),    *)
(* the editor buffer parsing (src/src/config/common.mjs).  Three smaller   *)
(* specifications exercise library functions on their own: the GitHub and  *)
(* GitLab providers (SpecProviders), the title/description buffer of the   *)
(* editor (SpecEditor) and the shared command-line flags (SpecCli).        *)
(*                                                                         *)
(* JavaScript strings are modelled as sequences of one-character strings,  *)
(* so that split / trim / join are computed as the code computes them.     *)
(* undefined, null and "" of a string-valued expression are all the empty  *)
(* sequence (they are all falsy under ||), except the body of a remote     *)
(* request, which the provider may leave out: that body is Missing.        *)
(***************************************************************************)
EXTENDS Integers, Sequences, FiniteSets, TLC

(***************************************************************************)
(* Bounds of the model.                                                    *)
(***************************************************************************)
\* generator calls a run may make (initial generation plus regenerations)
MaxGenCalls == 3
\* editor bridge invocations a run may make
MaxBridgeCalls == 2

(***************************************************************************)
(* String helpers: String.prototype.trim / split("\n") / join("\n").       *)
(***************************************************************************)
NL == "\n"

IsSpace(c) == c \in {" ", "\n", "\t", "\r"}

RECURSIVE TrimStart(_)
TrimStart(s) ==
    IF s = <<>> THEN <<>>
    ELSE IF IsSpace(Head(s)) THEN TrimStart(Tail(s))
    ELSE s

RECURSIVE TrimEnd(_)
TrimEnd(s) ==
    IF s = <<>> THEN <<>>
    ELSE IF IsSpace(s[Len(s)]) THEN TrimEnd(SubSeq(s, 1, Len(s) - 1))
    ELSE s

Trim(s) == TrimEnd(TrimStart(s))

RECURSIVE SplitAcc(_, _, _, _)
SplitAcc(s, i, cur, acc) ==
    IF i > Len(s) THEN Append(acc, cur)
    ELSE IF s[i] = NL THEN SplitAcc(s, i + 1, <<>>, Append(acc, cur))
    ELSE SplitAcc(s, i + 1, Append(cur, s[i]), acc)

\* s.split("\n"): always at least one element
Split(s) == SplitAcc(s, 1, <<>>, <<>>)

RECURSIVE Join(_)
\* lines.join("\n")
Join(lines) ==
    IF lines = <<>> THEN <<>>
    ELSE IF Len(lines) = 1 THEN lines[1]
    ELSE lines[1] \o <<NL>> \o Join(Tail(lines))

\* lines.slice(from) with a 0-based start index
Slice(lines, from) == SubSeq(lines, from + 1, Len(lines))

\* lines.slice(0, to) with a 0-based exclusive end index
SliceTo(lines, to) == SubSeq(lines, 1, to)

\* a string-valued field that is null or undefined
Missing == << "undefined" >>

\* a || b on strings
OrElse(a, b) == IF a = <<>> \/ a = Missing THEN b ELSE a

\* a || b on branch names ("" stands for undefined)
OrBranch(a, b) == IF a = "" THEN b ELSE a

(***************************************************************************)
(* Values the environment can supply.                                      *)
(***************************************************************************)
\* "no pull request": the null returned by the lookup
NoPR == [number |-> 0, title |-> <<>>, body |-> <<>>]

PR1 == [number |-> 7, title |-> <<"O">>, body |-> <<"b">>]
PR2 == [number |-> 8, title |-> <<"P">>, body |-> <<>>]
PR3 == [number |-> 9, title |-> <<"Q">>, body |-> Missing]

\* answers of GET /pulls?state=open&head=..&base=..: ok = FALSE is a
\* transport or auth error
LookupResponses ==
    { [ok |-> TRUE, pulls |-> <<>>],
      [ok |-> TRUE, pulls |-> <<PR1>>],
      [ok |-> TRUE, pulls |-> <<PR2, PR1>>],
      [ok |-> TRUE, pulls |-> <<PR3>>],
      [ok |-> FALSE, pulls |-> <<>>] }

\* results a successful generator call can return
GenResults ==
    { [title |-> <<"A">>, description |-> <<"x">>],
      [title |-> <<"B">>, description |-> <<"y", "\n", "z">>] }

\* the generator either returns a result or throws
GenOutcomes ==
    [ok : {TRUE}, result : GenResults]
        \cup { [ok |-> FALSE, result |-> [title |-> <<>>, description |-> <<>>]] }

\* what the user may leave in the title/description buffer, besides the
\* unmodified buffer
EditedBuffers ==
    { <<"E", "\n", "-", "-", "-", "\n", "f">>,
      <<"G">>,
      <<>> }

\* what the user may leave in the instructions buffer
InstructionBuffers ==
    { <<"#", "c", "\n">>,
      <<" ", "p", "\n", "\t", "#", "c", "\n", "\n", "q", " ", "r", "\n">> }

\* lines typed at "New Title: " / "New Description: "
ManualTitles == { <<>>, <<"M">> }
ManualDescriptions == { <<>>, <<"n">> }

\* raw lines typed at a menu prompt
MenuInputs ==
    { <<"1">>, <<"2">>, <<"3">>, <<"4">>, <<"5">>, <<"9">>, <<" ", "4">>, <<>> }

SourceBranch == "feature"
TargetBranch == "main"
RemoteBranchNames == { "", "tracked" }

Running == -1

VARIABLES
    pc,                 \* position in executePRWorkflow
    editorCommand,      \* TRUE iff config.editorCommand is set
    remoteSourceBranch, \* remote-tracked source branch or ""
    remoteTargetBranch, \* remote-tracked target branch or ""
    lookupResponse,     \* the answer the lookup got
    lookupCalls,        \* number of findExistingPullRequest calls
    existingPR,         \* const existingPR
    initialResult,      \* the result handed to handleUserInteraction
    currentResult,      \* let currentResult
    originalResult,     \* const originalResult
    hasChanges,         \* let hasChanges
    lastEdit,           \* what the last successful Edit/Regenerate wrote
    lastManual,         \* the last answers to "New Title: "/"New Description: "
    lookupWarned,       \* "Warning: Could not check for existing pull requests"
    lookedUp,           \* the branch pair the lookup was called with
    providerCalls,      \* HTTP requests sent by createOrUpdatePullRequest
    genCalls,           \* number of generator calls
    lastGen,            \* arguments of the last generator call
    lastUserInput,      \* what the instructions editor returned for that call
    bridgeCalls,        \* number of editor bridge invocations
    firstPrompt,        \* the first prompt shown to the user
    lastMenu,           \* the menu the last choice was read at
    lastChoice,         \* the last (trimmed) menu choice
    lastOp,             \* the operation the last step performed
    fallbackLogged,     \* "Falling back to fresh generation..." was printed
    invalidRange,       \* range named by the last "Invalid option" message
    outcome,            \* running / saved / save_failed / cancelled / error
    exitCode            \* process exit code, Running while the run lasts

VARIABLES
    providerInput,      \* the remote's answer and the arguments of the calls
    githubFound,        \* what the GitHub lookup returned, <<>> before it
    gitlabFound,        \* what the GitLab lookup returned, <<>> before it
    githubSent,         \* the outcome of the GitHub create-or-update
    gitlabSent,         \* the outcome of the GitLab create-or-update
    edInput,            \* title and description given to editPullRequestContent
    edReturned,         \* the buffer the editor returned, <<>> before it
    edResult,           \* what editPullRequestContent returned, <<>> before it
    cliCall,            \* the arguments of handleCommonCliFlags
    cliResult           \* the outcome of handleCommonCliFlags, <<>> before it

VARIABLES
    mainPc,             \* position in the main of gen-pr
    gitSource,          \* what git answers about the source branch
    gitTarget,          \* what git answers about the target branch
    sourceSync,         \* validateBranchSyncAndGetRemote(sourceBranch)
    targetSync,         \* validateBranchSyncAndGetRemote(targetBranch)
    mainExit,           \* exit code of main, Running while it runs
    workflowCall,       \* the arguments executePRWorkflow was called with
    pgPc,               \* position in generateMergeRequestPrompt
    pgCall,             \* its options and JIRA tickets
    pgFetch,            \* the state of each of the three git fetches
    pgPrompt,           \* the sections of the prompt built so far
    pgWarned,           \* "Warning: Could not gather git context"
    awAt,               \* the await the workflow is suspended at
    awOutstanding,      \* operations started and not yet returned
    awFound,            \* the lookup found an existing request
    awEditor,           \* an editor is configured
    awDraft,            \* currentResult
    awOriginal,         \* originalResult
    awHasChanges,       \* hasChanges
    awDraftAtPrompt,    \* currentResult when the menu was last rendered
    awChoice,           \* the last choice at a menu
    awTitle,            \* the answer to "New Title: "
    awOutcome           \* running / saved / save_failed / cancelled / error

workflow == << pc, editorCommand, remoteSourceBranch, remoteTargetBranch,
               lookupResponse, lookupCalls, existingPR, initialResult,
               currentResult, originalResult, hasChanges, lastEdit, lastManual,
               lookupWarned, lookedUp,
               providerCalls, genCalls, lastGen, lastUserInput, bridgeCalls,
               firstPrompt, lastMenu, lastChoice, lastOp, fallbackLogged, invalidRange, outcome, exitCode >>

providers == << providerInput, githubFound, gitlabFound, githubSent, gitlabSent >>
editor == << edInput, edReturned, edResult >>
cli == << cliCall, cliResult >>
startup == << mainPc, gitSource, gitTarget, sourceSync, targetSync, mainExit,
              workflowCall >>
promptgen == << pgPc, pgCall, pgFetch, pgPrompt, pgWarned >>
awaits == << awAt, awOutstanding, awFound, awEditor, awDraft, awOriginal,
             awHasChanges, awDraftAtPrompt, awChoice, awTitle, awOutcome >>
more == << startup, promptgen, awaits >>
lib == << providers, editor, cli, more >>

vars == << workflow, lib >>

NoDraft == [title |-> <<>>, description |-> <<>>]
NoGen == [kind |-> "none", previousResult |-> NoDraft,
          additionalInstructions |-> <<>>]


(***************************************************************************)
(* github-utils.mjs                                                        *)
(***************************************************************************)
\* a lookup that returns the last open pull request of the answer
findExistingPullRequest_Last(resp) ==
    IF ~resp.ok THEN NoPR
    ELSE IF Len(resp.pulls) > 0 THEN resp.pulls[Len(resp.pulls)]
    ELSE NoPR

\* findExistingPullRequest: the first open pull request of the answer, null
\* when the list is empty or the request failed (the error is only warned)
findExistingPullRequest(resp) ==
    IF ~resp.ok THEN NoPR
    ELSE IF Len(resp.pulls) > 0 THEN resp.pulls[1]
    ELSE NoPR

\* findExistingPullRequest: console.warn in the catch (line 92)
LookupWarns(resp) == ~resp.ok

\* createOrUpdatePullRequest with the test on existingPR inverted
createOrUpdatePullRequest_Inverted(opts, httpOk) ==
    IF opts.existingPR = NoPR
    THEN [requests |-> << [method |-> "PATCH",
                           pr |-> opts.existingPR.number,
                           data |-> [title |-> opts.title,
                                     body |-> opts.description]] >>,
          threw |-> ~httpOk]
    ELSE [requests |-> << [method |-> "POST",
                           pr |-> 0,
                           data |-> [head |-> opts.sourceBranch,
                                     base |-> opts.targetBranch,
                                     title |-> opts.title,
                                     body |-> opts.description]] >>,
          threw |-> ~httpOk]

\* createOrUpdatePullRequest whose update branch runs on into the create
createOrUpdatePullRequest_Both(opts, httpOk) ==
    LET create == [method |-> "POST",
                   pr |-> 0,
                   data |-> [head |-> opts.sourceBranch,
                             base |-> opts.targetBranch,
                             title |-> opts.title,
                             body |-> opts.description]]
        update == [method |-> "PATCH",
                   pr |-> opts.existingPR.number,
                   data |-> [title |-> opts.title,
                             body |-> opts.description]]
    IN  IF opts.existingPR # NoPR
        THEN [requests |-> << update, create >>, threw |-> ~httpOk]
        ELSE [requests |-> << create >>, threw |-> ~httpOk]

\* createOrUpdatePullRequest: the HTTP requests the call sends; pr = 0 is
\* the collection URL .../pulls, pr = n the URL .../pulls/n.  When the
\* request fails the error is logged and thrown again.
createOrUpdatePullRequest(opts, httpOk) ==
    IF opts.existingPR # NoPR
    THEN [requests |-> << [method |-> "PATCH",
                           pr |-> opts.existingPR.number,
                           data |-> [title |-> opts.title,
                                     body |-> opts.description]] >>,
          threw |-> ~httpOk]
    ELSE [requests |-> << [method |-> "POST",
                           pr |-> 0,
                           data |-> [head |-> opts.sourceBranch,
                                     base |-> opts.targetBranch,
                                     title |-> opts.title,
                                     body |-> opts.description]] >>,
          threw |-> ~httpOk]

(***************************************************************************)
(* config/common.mjs                                                       *)
(***************************************************************************)
Separator == <<"-", "-", "-">>

\* the buffer editPullRequestContent hands to the editor
ComposeContent(title, description) ==
    title \o <<NL, NL>> \o Separator \o <<NL, NL>> \o description

\* lines.findIndex((line) => line.trim() === "---"), 0-based, -1 if none
SeparatorIndex(lines) ==
    IF \E i \in 1..Len(lines) : Trim(lines[i]) = Separator
    THEN (CHOOSE i \in 1..Len(lines) :
              /\ Trim(lines[i]) = Separator
              /\ \A j \in 1..(i - 1) : Trim(lines[j]) # Separator) - 1
    ELSE -1

\* editPullRequestContent: parse the edited buffer back into the two fields
editPullRequestContent(title, description, editedContent) ==
    LET lines == Split(editedContent)
        separatorIndex == SeparatorIndex(lines)
    IN  IF separatorIndex # -1
        THEN [title |-> Trim(Join(SliceTo(lines, separatorIndex))),
              description |-> Trim(Join(Slice(lines, separatorIndex + 1)))]
        ELSE [title |-> OrElse(lines[1], title),
              description |-> OrElse(Trim(Join(Slice(lines, 1))), description)]

(***************************************************************************)
(* workflow.mjs: helpers of regenerateMergeRequest / handleUserInteraction *)
(***************************************************************************)
\* a line is a comment when line.trim().startsWith("#")
IsCommentLine(line) == LET t == Trim(line) IN t # <<>> /\ Head(t) = "#"

\* a filter that only drops the lines whose first character is '#'
FilterInstructions_StartOfLine(userInput) ==
    Trim(Join(SelectSeq(Split(userInput),
                        LAMBDA line : ~(line # <<>> /\ Head(line) = "#"))))

\* the instructions regenerateMergeRequest passes on: the buffer without
\* comment lines, trimmed
FilterInstructions(userInput) ==
    Trim(Join(SelectSeq(Split(userInput), LAMBDA line : ~IsCommentLine(line))))

\* rollbackToOriginal that restores the title only
rollbackToOriginal_TitleOnly(original) ==
    [title |-> original.title, description |-> currentResult.description]

\* rollbackToOriginal that leaves the live draft as it is
rollbackToOriginal_Noop(original) ==
    [title |-> currentResult.title, description |-> currentResult.description]

\* currentResult = { ...originalResult }
rollbackToOriginal(original) ==
    [title |-> original.title, description |-> original.description]

\* editManually that takes every answer as the new value
editManually_ClearsOnEmpty(current, title, description) ==
    [title |-> title, description |-> description]

\* editManually with the operands of || exchanged
editManually_KeepsCurrent(current, title, description) ==
    [title |-> OrElse(current.title, title),
     description |-> OrElse(current.description, description)]

\* editManually: an empty answer keeps the field
editManually(current, title, description) ==
    [title |-> OrElse(title, current.title),
     description |-> OrElse(description, current.description)]

\* saveMergeRequest that does not pass the existing request on
SaveOptions_NoExisting ==
    [sourceBranch |-> OrBranch(remoteSourceBranch, SourceBranch),
     targetBranch |-> OrBranch(remoteTargetBranch, TargetBranch),
     title |-> currentResult.title,
     description |-> currentResult.description,
     existingPR |-> NoPR]

\* saveMergeRequest that sends the original snapshot instead of the live draft
SaveOptions_Original ==
    [sourceBranch |-> OrBranch(remoteSourceBranch, SourceBranch),
     targetBranch |-> OrBranch(remoteTargetBranch, TargetBranch),
     title |-> originalResult.title,
     description |-> originalResult.description,
     existingPR |-> existingPR]

\* saveMergeRequest that names the local branches whatever the remote ones
SaveOptions_LocalBranches ==
    [sourceBranch |-> SourceBranch,
     targetBranch |-> TargetBranch,
     title |-> currentResult.title,
     description |-> currentResult.description,
     existingPR |-> existingPR]

\* the options saveMergeRequest passes to createOrUpdatePullRequest
SaveOptions ==
    [sourceBranch |-> OrBranch(remoteSourceBranch, SourceBranch),
     targetBranch |-> OrBranch(remoteTargetBranch, TargetBranch),
     title |-> currentResult.title,
     description |-> currentResult.description,
     existingPR |-> existingPR]

\* the branch pair findExistingPullRequest is called with (lines 310-315)
LookupBranches ==
    [sourceBranch |-> OrBranch(remoteSourceBranch, SourceBranch),
     targetBranch |-> OrBranch(remoteTargetBranch, TargetBranch)]

(***************************************************************************)
(* Values of the start-up checks, of the prompt generator and of the       *)
(* awaits of the workflow                                                  *)
(***************************************************************************)
\* `git rev-parse --abbrev-ref branch@{u}`: no upstream, or the ref as its
\* segments between the slashes
UpstreamRefs == { <<>>, <<"origin", "feature">>, <<"fork", "team", "x">> }

\* `git rev-list --left-right --count upstream...local`: the commits only
\* the upstream has (left) and the commits only the local branch has (right)
RevLists ==
    [ok : {TRUE}, left : {0, 2}, right : {0, 1}]
        \cup { [ok |-> FALSE, left |-> 0, right |-> 0] }

\* `git rev-parse branch`
RevParses == [ok : {TRUE}, sha : {"a", "b"}] \cup { [ok |-> FALSE, sha |-> ""] }

\* what git answers about one local branch
BranchGits ==
    [upstreamRef : UpstreamRefs, fetchOk : BOOLEAN, revList : RevLists,
     revParse : RevParses]

NoGit == [upstreamRef |-> <<>>, fetchOk |-> FALSE,
          revList |-> [ok |-> FALSE, left |-> 0, right |-> 0],
          revParse |-> [ok |-> FALSE, sha |-> ""]]

NoSync == [threw |-> FALSE, error |-> "none", githubRemoteBranch |-> <<>>,
           upstreamRemote |-> "", commitSha |-> ""]

NoCall == [called |-> FALSE, sourceBranch |-> "", targetBranch |-> "",
           remoteSourceBranch |-> <<>>, remoteTargetBranch |-> <<>>,
           remoteName |-> ""]

\* validateBranchSyncAndGetRemote throwing an Error
SyncThrew(error) ==
    [threw |-> TRUE, error |-> error, githubRemoteBranch |-> <<>>,
     upstreamRemote |-> "", commitSha |-> ""]

\* getAheadBehind: the first count is behind, the second ahead
getAheadBehind(revList) == [behind |-> revList.left, ahead |-> revList.right]

\* the three git fetches of generateMergeRequestPrompt
Slots == { "commits", "files", "diff" }

\* the options and the JIRA tickets generateMergeRequestPrompt is called with
PromptCalls ==
    [includeCommitMessages : BOOLEAN, includeChangedFiles : BOOLEAN,
     includeGitDiff : BOOLEAN, previousResult : BOOLEAN,
     additionalInstructions : { <<>>, <<" ">>, <<"i">> },
     jiraTickets : { <<>>, <<"J">> }]

NoPromptCall ==
    [includeCommitMessages |-> FALSE, includeChangedFiles |-> FALSE,
     includeGitDiff |-> FALSE, previousResult |-> FALSE,
     additionalInstructions |-> <<>>, jiraTickets |-> <<>>]

\* a fetch is off (null slot), pending, resolved with nothing or with
\* something, or rejected
FetchOff == [state |-> "off", value |-> "none"]
FetchPending == [state |-> "pending", value |-> "none"]

\* the drafts the generator may return
AwaitDrafts == { "g1", "g2" }

\* the library functions before any call of them
ProvidersIdle ==
    /\ providerInput = [ok |-> FALSE, open |-> <<>>, title |-> <<>>,
                        description |-> <<>>, useExisting |-> FALSE,
                        httpOk |-> FALSE]
    /\ githubFound = <<>>
    /\ gitlabFound = <<>>
    /\ githubSent = <<>>
    /\ gitlabSent = <<>>

EditorIdle ==
    /\ edInput = NoDraft
    /\ edReturned = <<>>
    /\ edResult = <<>>

CliIdle ==
    /\ cliCall = [argv |-> <<>>, include |-> <<>>, toolName |-> "",
                  handlerOk |-> FALSE]
    /\ cliResult = <<>>

StartupIdle ==
    /\ mainPc = "idle"
    /\ gitSource = NoGit
    /\ gitTarget = NoGit
    /\ sourceSync = NoSync
    /\ targetSync = NoSync
    /\ mainExit = Running
    /\ workflowCall = NoCall

PromptIdle ==
    /\ pgPc = "idle"
    /\ pgCall = NoPromptCall
    /\ pgFetch = [s \in Slots |-> FetchOff]
    /\ pgPrompt = <<>>
    /\ pgWarned = FALSE

AwaitIdle ==
    /\ awAt = "idle"
    /\ awOutstanding = {}
    /\ awFound = FALSE
    /\ awEditor = FALSE
    /\ awDraft = "none"
    /\ awOriginal = "none"
    /\ awHasChanges = FALSE
    /\ awDraftAtPrompt = "none"
    /\ awChoice = ""
    /\ awTitle = ""
    /\ awOutcome = "running"

MoreIdle ==
    /\ StartupIdle
    /\ PromptIdle
    /\ AwaitIdle

\* the state of the workflow when executePRWorkflow is called
InitWorkflow ==
    /\ pc = "start"
    /\ editorCommand \in BOOLEAN
    /\ remoteSourceBranch \in RemoteBranchNames
    /\ remoteTargetBranch \in RemoteBranchNames
    /\ lookupResponse = [ok |-> TRUE, pulls |-> <<>>]
    /\ lookupCalls = 0
    /\ existingPR = NoPR
    /\ initialResult = NoDraft
    /\ currentResult = NoDraft
    /\ originalResult = NoDraft
    /\ hasChanges = FALSE
    /\ lastEdit = NoDraft
    /\ lastManual = NoDraft
    /\ lookupWarned = FALSE
    /\ lookedUp = [sourceBranch |-> "", targetBranch |-> ""]
    /\ providerCalls = <<>>
    /\ genCalls = 0
    /\ lastGen = NoGen
    /\ lastUserInput = <<>>
    /\ bridgeCalls = 0
    /\ firstPrompt = "none"
    /\ lastMenu = "none"
    /\ lastChoice = <<>>
    /\ lastOp = "init"
    /\ fallbackLogged = FALSE
    /\ invalidRange = "none"
    /\ outcome = "running"
    /\ exitCode = Running

Init ==
    /\ InitWorkflow
    /\ ProvidersIdle
    /\ EditorIdle
    /\ CliIdle
    /\ MoreIdle

\* a workflow that is not run
WorkflowIdle ==
    /\ InitWorkflow
    /\ ~editorCommand
    /\ remoteSourceBranch = ""
    /\ remoteTargetBranch = ""


(***************************************************************************)
(* Shared pieces of the steps.                                             *)
(***************************************************************************)
env == << editorCommand, remoteSourceBranch, remoteTargetBranch >>
lookup == << lookupResponse, lookupCalls, existingPR, lookupWarned, lookedUp >>
draft == << initialResult, currentResult, originalResult, hasChanges >>
prompt == << firstPrompt, lastMenu, lastChoice >>

\* rl.question at a menu answered with a line; the code trims the line
Prompted(menu, raw) ==
    /\ firstPrompt' = IF firstPrompt = "none" THEN menu ELSE firstPrompt
    /\ lastMenu' = menu
    /\ lastChoice' = Trim(raw)

\* openInEditor: throws without a configured editor or when the editor
\* command fails, otherwise returns what the user left in the buffer
EditorOutcomes(buffers) ==
    IF editorCommand
    THEN [ok : {TRUE}, text : buffers] \cup { [ok |-> FALSE, text |-> <<>>] }
    ELSE { [ok |-> FALSE, text |-> <<>>] }

\* regenerateMergeRequest: the editor outcome ed and the generator outcome g
\* decide the result; the generator is only called when the editor returned
regenerateMergeRequest(previousResult, ed, g) ==
    IF ~ed.ok
    THEN [ok |-> FALSE, result |-> NoDraft, called |-> FALSE, gen |-> NoGen]
    ELSE [ok |-> g.ok, result |-> g.result, called |-> TRUE,
          gen |-> [kind |-> "seeded",
                   previousResult |-> previousResult,
                   additionalInstructions |-> FilterInstructions(ed.text)]]

\* a snapshot taken of the seed of the generation instead of its result
EnterReview_SnapshotsSeed(result) ==
    /\ initialResult' = result
    /\ currentResult' = [title |-> result.title,
                         description |-> result.description]
    /\ originalResult' = IF lastGen'.kind = "seeded"
                         THEN lastGen'.previousResult
                         ELSE [title |-> result.title,
                               description |-> result.description]
    /\ hasChanges' = FALSE
    /\ pc' = "review"
    /\ outcome' = outcome
    /\ exitCode' = exitCode

\* handleUserInteraction is entered: lines 102-104
EnterReview(result) ==
    /\ initialResult' = result
    /\ currentResult' = [title |-> result.title,
                         description |-> result.description]
    /\ originalResult' = [title |-> result.title,
                          description |-> result.description]
    /\ hasChanges' = FALSE
    /\ pc' = "review"
    /\ outcome' = outcome
    /\ exitCode' = exitCode

\* a catch that hands the undefined result on to the review loop
WorkflowError_EntersReview ==
    /\ pc' = "review"
    /\ outcome' = outcome
    /\ exitCode' = exitCode
    /\ UNCHANGED draft

\* the catch of executePRWorkflow ending the process with code 0
WorkflowError_ExitZero ==
    /\ pc' = "done"
    /\ outcome' = "error"
    /\ exitCode' = 0
    /\ UNCHANGED draft

\* catch (error) of executePRWorkflow: process.exit(1)
WorkflowError ==
    /\ pc' = "done"
    /\ outcome' = "error"
    /\ exitCode' = 1
    /\ UNCHANGED draft

\* a cancel that ends the process with the code of a failure
Cancelled_ExitOne ==
    /\ pc' = "done"
    /\ outcome' = "cancelled"
    /\ exitCode' = 1

\* process.exit(0) after "Operation cancelled"
Cancelled ==
    /\ pc' = "done"
    /\ outcome' = "cancelled"
    /\ exitCode' = 0

\* generateMergeRequestSafe with the default prompt options, then the
\* hand-over to handleUserInteraction
FreshGeneration(g) ==
    /\ genCalls' = genCalls + 1
    /\ lastGen' = [kind |-> "fresh", previousResult |-> NoDraft,
                   additionalInstructions |-> <<>>]
    /\ IF g.ok
       THEN EnterReview(g.result) /\ lastOp' = "generated"
       ELSE WorkflowError /\ lastOp' = "generation_failed"

(***************************************************************************)
(* executePRWorkflow                                                       *)
(***************************************************************************)
\* a lookup whose error is not caught and reaches the catch of the workflow
FindExisting_Fatal ==
    /\ pc = "start"
    /\ \E resp \in LookupResponses :
        /\ lookupResponse' = resp
        /\ existingPR' = findExistingPullRequest(resp)
        /\ lookupWarned' = LookupWarns(resp)
    /\ lookupCalls' = lookupCalls + 1
    /\ lookedUp' = LookupBranches
    /\ pc' = IF ~lookupResponse'.ok THEN "done"
             ELSE IF existingPR' # NoPR THEN "gate" ELSE "generate"
    /\ outcome' = IF ~lookupResponse'.ok THEN "error" ELSE outcome
    /\ exitCode' = IF ~lookupResponse'.ok THEN 1 ELSE exitCode
    /\ lastOp' = "lookup"
    /\ UNCHANGED << lib, env, lastUserInput, draft, lastEdit, lastManual, prompt, providerCalls, genCalls, lastGen,
                    bridgeCalls, fallbackLogged, invalidRange >>

\* a workflow that shows the gate menu whatever the lookup returned
FindExisting_AlwaysGate ==
    /\ pc = "start"
    /\ \E resp \in LookupResponses :
        /\ lookupResponse' = resp
        /\ existingPR' = findExistingPullRequest(resp)
        /\ lookupWarned' = LookupWarns(resp)
    /\ lookupCalls' = lookupCalls + 1
    /\ lookedUp' = LookupBranches
    /\ pc' = "gate"
    /\ lastOp' = "lookup"
    /\ UNCHANGED << lib, env, lastUserInput, draft, lastEdit, lastManual, prompt, providerCalls, genCalls, lastGen,
                    bridgeCalls, fallbackLogged, invalidRange, outcome,
                    exitCode >>

\* lines 308-319: the lookup
FindExisting ==
    /\ pc = "start"
    /\ \E resp \in LookupResponses :
        /\ lookupResponse' = resp
        /\ existingPR' = findExistingPullRequest(resp)
        /\ lookupWarned' = LookupWarns(resp)
    /\ lookupCalls' = lookupCalls + 1
    /\ lookedUp' = LookupBranches
    /\ pc' = IF existingPR' # NoPR THEN "gate" ELSE "generate"
    /\ lastOp' = "lookup"
    /\ UNCHANGED << lib, env, lastUserInput, draft, lastEdit, lastManual, prompt, providerCalls, genCalls, lastGen,
                    bridgeCalls, fallbackLogged, invalidRange, outcome,
                    exitCode >>

\* lines 391-410: no existing request, fresh generation without a prompt
GenerateFresh ==
    /\ pc = "generate"
    /\ \E g \in GenOutcomes : FreshGeneration(g)
    /\ UNCHANGED << lib, env, lastUserInput, lookup, lastEdit, lastManual, prompt, providerCalls, bridgeCalls,
                    fallbackLogged, invalidRange >>

\* lines 346-362: gate option 1
GateFresh ==
    /\ pc = "gate"
    /\ \E raw \in MenuInputs :
        /\ Trim(raw) = <<"1">>
        /\ Prompted("gate", raw)
    /\ \E g \in GenOutcomes : FreshGeneration(g)
    /\ UNCHANGED << lib, env, lastUserInput, lookup, lastEdit, lastManual, providerCalls, bridgeCalls, fallbackLogged,
                    invalidRange >>

\* gate option 2 that passes the body of the request on as it is
GateSeeded_RawBody ==
    /\ pc = "gate"
    /\ bridgeCalls < MaxBridgeCalls
    /\ \E raw \in MenuInputs :
        /\ Trim(raw) = <<"2">>
        /\ Prompted("gate", raw)
    /\ bridgeCalls' = bridgeCalls + 1
    /\ \E ed \in EditorOutcomes(InstructionBuffers), g \in GenOutcomes :
        LET r == regenerateMergeRequest(
                     [title |-> existingPR.title,
                      description |-> existingPR.body], ed, g)
        IN  /\ genCalls' = IF r.called THEN genCalls + 1 ELSE genCalls
            /\ lastGen' = IF r.called THEN r.gen ELSE lastGen
            /\ lastUserInput' = IF r.called THEN ed.text ELSE lastUserInput
            /\ IF r.ok
               THEN /\ EnterReview(r.result)
                    /\ lastOp' = "seeded"
                    /\ fallbackLogged' = fallbackLogged
               ELSE /\ WorkflowError
                    /\ lastOp' = "seeded_failed"
                    /\ fallbackLogged' = TRUE
    /\ UNCHANGED << lib, env, lookup, lastEdit, lastManual, providerCalls, invalidRange >>

\* lines 363-384 and 412-433: gate option 2.  When regenerateMergeRequest
\* throws, result stays undefined and reading result.title at line 416
\* throws into the catch of line 429.
GateSeeded ==
    /\ pc = "gate"
    /\ bridgeCalls < MaxBridgeCalls
    /\ \E raw \in MenuInputs :
        /\ Trim(raw) = <<"2">>
        /\ Prompted("gate", raw)
    /\ bridgeCalls' = bridgeCalls + 1
    /\ \E ed \in EditorOutcomes(InstructionBuffers), g \in GenOutcomes :
        LET r == regenerateMergeRequest(
                     [title |-> existingPR.title,
                      description |-> OrElse(existingPR.body, <<>>)], ed, g)
        IN  /\ genCalls' = IF r.called THEN genCalls + 1 ELSE genCalls
            /\ lastGen' = IF r.called THEN r.gen ELSE lastGen
            /\ lastUserInput' = IF r.called THEN ed.text ELSE lastUserInput
            /\ IF r.ok
               THEN /\ EnterReview(r.result)
                    /\ lastOp' = "seeded"
                    /\ fallbackLogged' = fallbackLogged
               ELSE /\ WorkflowError
                    /\ lastOp' = "seeded_failed"
                    /\ fallbackLogged' = TRUE
    /\ UNCHANGED << lib, env, lookup, lastEdit, lastManual, providerCalls, invalidRange >>

\* a gate whose cancel comes after a generator call
GateCancel_GeneratesFirst ==
    /\ pc = "gate"
    /\ \E raw \in MenuInputs :
        /\ Trim(raw) \notin { <<"1">>, <<"2">> }
        /\ Prompted("gate", raw)
    /\ Cancelled
    /\ genCalls' = genCalls + 1
    /\ lastOp' = "gate_cancel"
    /\ UNCHANGED << lib, env, lastUserInput, lookup, lastEdit, lastManual, draft, providerCalls, lastGen,
                    bridgeCalls, fallbackLogged, invalidRange >>

\* lines 385-390: gate option 3 and every other input
GateCancel ==
    /\ pc = "gate"
    /\ \E raw \in MenuInputs :
        /\ Trim(raw) \notin { <<"1">>, <<"2">> }
        /\ Prompted("gate", raw)
    /\ Cancelled
    /\ lastOp' = "gate_cancel"
    /\ UNCHANGED << lib, env, lastUserInput, lookup, lastEdit, lastManual, draft, providerCalls, genCalls, lastGen,
                    bridgeCalls, fallbackLogged, invalidRange >>


(***************************************************************************)
(* handleUserInteraction: one step per case of the menu switch             *)
(***************************************************************************)
\* case "1" without its return: the loop shows the menu again after a Save
AfterSave_NoReturn(threw) ==
    /\ pc' = pc
    /\ outcome' = IF threw THEN "save_failed" ELSE "saved"
    /\ exitCode' = exitCode

\* the ending of a run whose Save was dispatched: rl.close() and return,
\* whether createOrUpdatePullRequest threw or not
AfterSave(threw) ==
    /\ pc' = "done"
    /\ outcome' = IF threw THEN "save_failed" ELSE "saved"
    /\ exitCode' = 0

\* a save that looks the existing request up again before it sends
SaveMergeRequest_LooksUpAgain ==
    /\ pc = "review"
    /\ \E raw \in MenuInputs :
        /\ Trim(raw) = <<"1">>
        /\ Prompted("review", raw)
    /\ \E resp \in LookupResponses :
        /\ lookupResponse' = resp
        /\ existingPR' = findExistingPullRequest(resp)
        /\ lookupWarned' = LookupWarns(resp)
    /\ lookupCalls' = lookupCalls + 1
    /\ lookedUp' = LookupBranches
    /\ \E httpOk \in BOOLEAN :
        LET r == createOrUpdatePullRequest(
                     [SaveOptions EXCEPT !.existingPR = existingPR'], httpOk)
        IN  /\ providerCalls' = providerCalls \o r.requests
            /\ AfterSave(r.threw)
    /\ lastOp' = "save"
    /\ UNCHANGED << lib, env, lastUserInput, lastEdit, lastManual, draft, genCalls, lastGen, bridgeCalls,
                    fallbackLogged, invalidRange >>

\* a menu that takes the empty line as the Save option
SaveMergeRequest_DefaultOnEmpty ==
    /\ pc = "review"
    /\ \E raw \in MenuInputs :
        /\ Trim(raw) \in { <<"1">>, <<>> }
        /\ Prompted("review", raw)
    /\ \E httpOk \in BOOLEAN :
        LET r == createOrUpdatePullRequest(SaveOptions, httpOk)
        IN  /\ providerCalls' = providerCalls \o r.requests
            /\ AfterSave(r.threw)
    /\ lastOp' = "save"
    /\ UNCHANGED << lib, env, lastUserInput, lookup, lastEdit, lastManual, draft, genCalls, lastGen, bridgeCalls,
                    fallbackLogged, invalidRange >>

\* a save that sends the request again when it failed
SaveMergeRequest_RetryOnFailure ==
    /\ pc = "review"
    /\ \E raw \in MenuInputs :
        /\ Trim(raw) = <<"1">>
        /\ Prompted("review", raw)
    /\ \E httpOk \in BOOLEAN :
        LET r == createOrUpdatePullRequest(SaveOptions, httpOk)
        IN  /\ providerCalls' = providerCalls \o r.requests
                                \o (IF r.threw THEN r.requests ELSE <<>>)
            /\ AfterSave(r.threw)
    /\ lastOp' = "save"
    /\ UNCHANGED << lib, env, lastUserInput, lookup, lastEdit, lastManual, draft, genCalls, lastGen, bridgeCalls,
                    fallbackLogged, invalidRange >>

\* case "1", saveMergeRequest (lines 216-241)
SaveMergeRequest ==
    /\ pc = "review"
    /\ \E raw \in MenuInputs :
        /\ Trim(raw) = <<"1">>
        /\ Prompted("review", raw)
    /\ \E httpOk \in BOOLEAN :
        LET r == createOrUpdatePullRequest(SaveOptions, httpOk)
        IN  /\ providerCalls' = providerCalls \o r.requests
            /\ AfterSave(r.threw)
    /\ lastOp' = "save"
    /\ UNCHANGED << lib, env, lastUserInput, lookup, lastEdit, lastManual, draft, genCalls, lastGen, bridgeCalls,
                    fallbackLogged, invalidRange >>

\* case "2", editWithEditor with an editor that returns (lines 135-149)
EditWithEditor ==
    /\ pc = "review"
    /\ editorCommand
    /\ bridgeCalls < MaxBridgeCalls
    /\ \E raw \in MenuInputs :
        /\ Trim(raw) = <<"2">>
        /\ Prompted("review", raw)
    /\ bridgeCalls' = bridgeCalls + 1
    /\ \E editedContent \in
            { ComposeContent(currentResult.title, currentResult.description) }
                \cup EditedBuffers :
        currentResult' = editPullRequestContent(currentResult.title,
                                                currentResult.description,
                                                editedContent)
    /\ hasChanges' = TRUE
    /\ lastEdit' = currentResult'
    /\ lastOp' = "edit"
    /\ UNCHANGED << lib, env, lastUserInput, lookup, lastManual, initialResult, originalResult, providerCalls,
                    genCalls, lastGen, fallbackLogged, invalidRange, pc,
                    outcome, exitCode >>

\* case "2", the editor throws and editManually takes over (lines 150-154)
EditEditorError ==
    /\ pc = "review"
    /\ editorCommand
    /\ bridgeCalls < MaxBridgeCalls
    /\ \E raw \in MenuInputs :
        /\ Trim(raw) = <<"2">>
        /\ Prompted("review", raw)
    /\ bridgeCalls' = bridgeCalls + 1
    /\ \E title \in ManualTitles, description \in ManualDescriptions :
        /\ currentResult' = editManually(currentResult, title, description)
        /\ lastManual' = [title |-> title, description |-> description]
    /\ hasChanges' = TRUE
    /\ lastEdit' = currentResult'
    /\ lastOp' = "manual_after_error"
    /\ UNCHANGED << lib, env, lastUserInput, lookup, initialResult, originalResult, providerCalls,
                    genCalls, lastGen, fallbackLogged, invalidRange, pc,
                    outcome, exitCode >>

\* an Edit that tries the editor bridge although no editor is configured
EditNoEditor_TriesBridge ==
    /\ pc = "review"
    /\ ~editorCommand
    /\ \E raw \in MenuInputs :
        /\ Trim(raw) = <<"2">>
        /\ Prompted("review", raw)
    /\ \E title \in ManualTitles, description \in ManualDescriptions :
        /\ currentResult' = editManually(currentResult, title, description)
        /\ lastManual' = [title |-> title, description |-> description]
    /\ bridgeCalls' = bridgeCalls + 1
    /\ hasChanges' = TRUE
    /\ lastEdit' = currentResult'
    /\ lastOp' = "manual"
    /\ UNCHANGED << lib, env, lastUserInput, lookup, initialResult, originalResult, providerCalls,
                    genCalls, lastGen, fallbackLogged,
                    invalidRange, pc, outcome, exitCode >>

\* case "2" without a configured editor: editManually directly (line 156)
EditNoEditor ==
    /\ pc = "review"
    /\ ~editorCommand
    /\ \E raw \in MenuInputs :
        /\ Trim(raw) = <<"2">>
        /\ Prompted("review", raw)
    /\ \E title \in ManualTitles, description \in ManualDescriptions :
        /\ currentResult' = editManually(currentResult, title, description)
        /\ lastManual' = [title |-> title, description |-> description]
    /\ hasChanges' = TRUE
    /\ lastEdit' = currentResult'
    /\ lastOp' = "manual"
    /\ UNCHANGED << lib, env, lastUserInput, lookup, initialResult, originalResult, providerCalls,
                    genCalls, lastGen, bridgeCalls, fallbackLogged,
                    invalidRange, pc, outcome, exitCode >>

\* regenerateWithInstructions seeded from the original snapshot
RegenerateWithInstructions_FromOriginal ==
    /\ pc = "review"
    /\ bridgeCalls < MaxBridgeCalls
    /\ genCalls < MaxGenCalls
    /\ \E raw \in MenuInputs :
        /\ Trim(raw) = <<"3">>
        /\ Prompted("review", raw)
    /\ bridgeCalls' = bridgeCalls + 1
    /\ \E ed \in EditorOutcomes(InstructionBuffers), g \in GenOutcomes :
        LET r == regenerateMergeRequest(
                     [title |-> originalResult.title,
                      description |-> originalResult.description], ed, g)
        IN  /\ genCalls' = IF r.called THEN genCalls + 1 ELSE genCalls
            /\ lastGen' = IF r.called THEN r.gen ELSE lastGen
            /\ lastUserInput' = IF r.called THEN ed.text ELSE lastUserInput
            /\ IF r.ok
               THEN /\ currentResult' = [title |-> r.result.title,
                                         description |-> r.result.description]
                    /\ hasChanges' = TRUE
                    /\ lastEdit' = currentResult'
                    /\ lastOp' = "regenerated"
               ELSE /\ UNCHANGED << currentResult, hasChanges, lastEdit >>
                    /\ lastOp' = "regenerate_failed"
    /\ UNCHANGED << lib, env, lookup, lastManual, initialResult, originalResult, providerCalls,
                    fallbackLogged, invalidRange, pc, outcome, exitCode >>

\* regenerateWithInstructions that sets hasChanges before the call returns
RegenerateWithInstructions_SetsFlag ==
    /\ pc = "review"
    /\ bridgeCalls < MaxBridgeCalls
    /\ genCalls < MaxGenCalls
    /\ \E raw \in MenuInputs :
        /\ Trim(raw) = <<"3">>
        /\ Prompted("review", raw)
    /\ bridgeCalls' = bridgeCalls + 1
    /\ \E ed \in EditorOutcomes(InstructionBuffers), g \in GenOutcomes :
        LET r == regenerateMergeRequest(
                     [title |-> currentResult.title,
                      description |-> currentResult.description], ed, g)
        IN  /\ genCalls' = IF r.called THEN genCalls + 1 ELSE genCalls
            /\ lastGen' = IF r.called THEN r.gen ELSE lastGen
            /\ lastUserInput' = IF r.called THEN ed.text ELSE lastUserInput
            /\ IF r.ok
               THEN /\ currentResult' = [title |-> r.result.title,
                                         description |-> r.result.description]
                    /\ hasChanges' = TRUE
                    /\ lastEdit' = currentResult'
                    /\ lastOp' = "regenerated"
               ELSE /\ UNCHANGED << currentResult, lastEdit >>
                    /\ hasChanges' = TRUE
                    /\ lastOp' = "regenerate_failed"
    /\ UNCHANGED << lib, env, lookup, lastManual, initialResult, originalResult, providerCalls,
                    fallbackLogged, invalidRange, pc, outcome, exitCode >>

\* case "3", regenerateWithInstructions (lines 175-201)
RegenerateWithInstructions ==
    /\ pc = "review"
    /\ bridgeCalls < MaxBridgeCalls
    /\ genCalls < MaxGenCalls
    /\ \E raw \in MenuInputs :
        /\ Trim(raw) = <<"3">>
        /\ Prompted("review", raw)
    /\ bridgeCalls' = bridgeCalls + 1
    /\ \E ed \in EditorOutcomes(InstructionBuffers), g \in GenOutcomes :
        LET r == regenerateMergeRequest(
                     [title |-> currentResult.title,
                      description |-> currentResult.description], ed, g)
        IN  /\ genCalls' = IF r.called THEN genCalls + 1 ELSE genCalls
            /\ lastGen' = IF r.called THEN r.gen ELSE lastGen
            /\ lastUserInput' = IF r.called THEN ed.text ELSE lastUserInput
            /\ IF r.ok
               THEN /\ currentResult' = [title |-> r.result.title,
                                         description |-> r.result.description]
                    /\ hasChanges' = TRUE
                    /\ lastEdit' = currentResult'
                    /\ lastOp' = "regenerated"
               ELSE /\ UNCHANGED << currentResult, hasChanges, lastEdit >>
                    /\ lastOp' = "regenerate_failed"
    /\ UNCHANGED << lib, env, lookup, lastManual, initialResult, originalResult, providerCalls,
                    fallbackLogged, invalidRange, pc, outcome, exitCode >>

\* case "4" that rolls back without testing hasChanges
Rollback_Unguarded ==
    /\ pc = "review"
    /\ \E raw \in MenuInputs :
        /\ Trim(raw) = <<"4">>
        /\ Prompted("review", raw)
    /\ currentResult' = rollbackToOriginal(originalResult)
    /\ hasChanges' = FALSE
    /\ lastOp' = "rollback"
    /\ UNCHANGED << lib, env, lastUserInput, lookup, lastEdit, lastManual, initialResult, originalResult, providerCalls,
                    genCalls, lastGen, bridgeCalls, fallbackLogged,
                    invalidRange, pc, outcome, exitCode >>

\* rollback that does not clear hasChanges
Rollback_KeepsFlag ==
    /\ pc = "review"
    /\ \E raw \in MenuInputs :
        /\ Trim(raw) = <<"4">>
        /\ Prompted("review", raw)
    /\ hasChanges
    /\ currentResult' = rollbackToOriginal(originalResult)
    /\ hasChanges' = hasChanges
    /\ lastOp' = "rollback"
    /\ UNCHANGED << lib, env, lastUserInput, lookup, lastEdit, lastManual, initialResult, originalResult,
                    providerCalls, genCalls, lastGen, bridgeCalls,
                    fallbackLogged, invalidRange, pc, outcome, exitCode >>

\* case "4" with changes, rollbackToOriginal (lines 203-208)
Rollback ==
    /\ pc = "review"
    /\ \E raw \in MenuInputs :
        /\ Trim(raw) = <<"4">>
        /\ Prompted("review", raw)
    /\ hasChanges
    /\ currentResult' = rollbackToOriginal(originalResult)
    /\ hasChanges' = FALSE
    /\ lastOp' = "rollback"
    /\ UNCHANGED << lib, env, lastUserInput, lookup, lastEdit, lastManual, initialResult, originalResult, providerCalls,
                    genCalls, lastGen, bridgeCalls, fallbackLogged,
                    invalidRange, pc, outcome, exitCode >>

\* a cancel that falls through into the save before it exits
ReviewCancel_SavesFirst ==
    /\ pc = "review"
    /\ \E raw \in MenuInputs :
        /\ \/ Trim(raw) = <<"4">> /\ ~hasChanges
           \/ Trim(raw) = <<"5">> /\ hasChanges
        /\ Prompted("review", raw)
    /\ providerCalls' =
           providerCalls \o createOrUpdatePullRequest(SaveOptions, TRUE).requests
    /\ Cancelled
    /\ lastOp' = "review_cancel"
    /\ UNCHANGED << lib, env, lastUserInput, lookup, lastEdit, lastManual, draft, genCalls, lastGen,
                    bridgeCalls, fallbackLogged, invalidRange >>

\* case "4" without changes and case "5" with changes (lines 252-263)
ReviewCancel ==
    /\ pc = "review"
    /\ \E raw \in MenuInputs :
        /\ \/ Trim(raw) = <<"4">> /\ ~hasChanges
           \/ Trim(raw) = <<"5">> /\ hasChanges
        /\ Prompted("review", raw)
    /\ Cancelled
    /\ lastOp' = "review_cancel"
    /\ UNCHANGED << lib, env, lastUserInput, lookup, lastEdit, lastManual, draft, providerCalls, genCalls, lastGen,
                    bridgeCalls, fallbackLogged, invalidRange >>

\* an error message that always names the five-option menu
InvalidOption_AlwaysFive ==
    /\ pc = "review"
    /\ \E raw \in MenuInputs :
        /\ \/ Trim(raw) = <<"5">> /\ ~hasChanges
           \/ Trim(raw) \notin { <<"1">>, <<"2">>, <<"3">>, <<"4">>, <<"5">> }
        /\ Prompted("review", raw)
        /\ invalidRange' = "1-5"
    /\ lastOp' = "invalid"
    /\ UNCHANGED << lib, env, lastUserInput, lookup, lastEdit, lastManual, draft, providerCalls, genCalls, lastGen,
                    bridgeCalls, fallbackLogged, pc, outcome, exitCode >>

\* case "5" without changes and default (lines 264-270)
InvalidOption ==
    /\ pc = "review"
    /\ \E raw \in MenuInputs :
        /\ \/ Trim(raw) = <<"5">> /\ ~hasChanges
           \/ Trim(raw) \notin { <<"1">>, <<"2">>, <<"3">>, <<"4">>, <<"5">> }
        /\ Prompted("review", raw)
        /\ invalidRange' = IF Trim(raw) = <<"5">> THEN "1-4"
                           ELSE IF hasChanges THEN "1-5" ELSE "1-4"
    /\ lastOp' = "invalid"
    /\ UNCHANGED << lib, env, lastUserInput, lookup, lastEdit, lastManual, draft, providerCalls, genCalls, lastGen,
                    bridgeCalls, fallbackLogged, pc, outcome, exitCode >>

Next ==
    \/ FindExisting
    \/ GenerateFresh
    \/ GateFresh
    \/ GateSeeded
    \/ GateCancel
    \/ SaveMergeRequest
    \/ EditWithEditor
    \/ EditEditorError
    \/ EditNoEditor
    \/ RegenerateWithInstructions
    \/ Rollback
    \/ ReviewCancel
    \/ InvalidOption

Spec == Init /\ [][Next]_vars


(***************************************************************************)
(* repo-providers: the GitHub and the GitLab provider on the same remote   *)
(***************************************************************************)
\* open requests of the remote, whatever the provider calls their fields
Open1 == [id |-> 7, title |-> <<"O">>, text |-> <<"b">>, url |-> "u7"]
Open2 == [id |-> 8, title |-> <<"P">>, text |-> <<>>, url |-> "u8"]
OpenLists == { <<>>, <<Open1>>, <<Open2, Open1>> }

\* the JSON GitHub answers for a pull request
GithubJson(r) ==
    [number |-> r.id, title |-> r.title, body |-> r.text, html_url |-> r.url]

\* the JSON GitLab answers for a merge request
GitlabJson(r) ==
    [iid |-> r.id, title |-> r.title, description |-> r.text, web_url |-> r.url]

\* the remote's answer and the arguments the two providers are called with
ProviderInputs ==
    [ok : BOOLEAN, open : OpenLists, title : { <<"A">>, <<"B">> },
     description : { <<"x">>, <<>> }, useExisting : BOOLEAN, httpOk : BOOLEAN]

\* findExistingMergeRequest: the first open merge request with html_url and
\* body added, null when the list is empty or the request failed
findExistingMergeRequest(resp) ==
    IF ~resp.ok THEN NoPR
    ELSE IF Len(resp.mergeRequests) > 0
    THEN LET mr == resp.mergeRequests[1]
         IN  [iid |-> mr.iid, title |-> mr.title,
              description |-> mr.description, web_url |-> mr.web_url,
              html_url |-> mr.web_url, body |-> mr.description]
    ELSE NoPR

\* createOrUpdateMergeRequest that never updates
createOrUpdateMergeRequest_AlwaysCreate(opts, httpOk) ==
    [requests |-> << [method |-> "POST",
                      mr |-> 0,
                      data |-> [source_branch |-> opts.sourceBranch,
                                target_branch |-> opts.targetBranch,
                                title |-> opts.title,
                                description |-> opts.description]] >>,
     threw |-> ~httpOk]

\* createOrUpdateMergeRequest: the HTTP requests the call sends; mr = 0 is
\* the collection URL .../merge_requests, mr = n the URL .../merge_requests/n
createOrUpdateMergeRequest(opts, httpOk) ==
    IF opts.existingRequest # NoPR
    THEN [requests |-> << [method |-> "PUT",
                           mr |-> opts.existingRequest.iid,
                           data |-> [title |-> opts.title,
                                     description |-> opts.description]] >>,
          threw |-> ~httpOk]
    ELSE [requests |-> << [method |-> "POST",
                           mr |-> 0,
                           data |-> [source_branch |-> opts.sourceBranch,
                                     target_branch |-> opts.targetBranch,
                                     title |-> opts.title,
                                     description |-> opts.description]] >>,
          threw |-> ~httpOk]

InitProviders ==
    /\ WorkflowIdle
    /\ MoreIdle
    /\ providerInput \in ProviderInputs
    /\ githubFound = <<>>
    /\ gitlabFound = <<>>
    /\ githubSent = <<>>
    /\ gitlabSent = <<>>
    /\ EditorIdle
    /\ CliIdle

\* github-provider.mjs, findExistingPullRequest
GithubFind ==
    /\ githubFound = <<>>
    /\ githubFound' =
           << findExistingPullRequest(
                  [ok |-> providerInput.ok,
                   pulls |-> [i \in DOMAIN providerInput.open |->
                                  GithubJson(providerInput.open[i])]]) >>
    /\ UNCHANGED << workflow, more, providerInput, gitlabFound, githubSent,
                    gitlabSent, editor, cli >>

\* gitlab-provider.mjs, findExistingMergeRequest
GitlabFind ==
    /\ gitlabFound = <<>>
    /\ gitlabFound' =
           << findExistingMergeRequest(
                  [ok |-> providerInput.ok,
                   mergeRequests |-> [i \in DOMAIN providerInput.open |->
                                          GitlabJson(providerInput.open[i])]]) >>
    /\ UNCHANGED << workflow, more, providerInput, githubFound, githubSent,
                    gitlabSent, editor, cli >>

\* github-provider.mjs, createOrUpdatePullRequest called with the request
\* its lookup returned, or with none
GithubSave ==
    /\ githubFound # <<>>
    /\ githubSent = <<>>
    /\ githubSent' =
           << createOrUpdatePullRequest(
                  [sourceBranch |-> SourceBranch,
                   targetBranch |-> TargetBranch,
                   title |-> providerInput.title,
                   description |-> providerInput.description,
                   existingPR |-> IF providerInput.useExisting
                                  THEN githubFound[1] ELSE NoPR],
                  providerInput.httpOk) >>
    /\ UNCHANGED << workflow, more, providerInput, githubFound, gitlabFound,
                    gitlabSent, editor, cli >>

\* gitlab-provider.mjs, createOrUpdateMergeRequest called with the request
\* its lookup returned, or with none
GitlabSave ==
    /\ gitlabFound # <<>>
    /\ gitlabSent = <<>>
    /\ gitlabSent' =
           << createOrUpdateMergeRequest(
                  [sourceBranch |-> SourceBranch,
                   targetBranch |-> TargetBranch,
                   title |-> providerInput.title,
                   description |-> providerInput.description,
                   existingRequest |-> IF providerInput.useExisting
                                       THEN gitlabFound[1] ELSE NoPR],
                  providerInput.httpOk) >>
    /\ UNCHANGED << workflow, more, providerInput, githubFound, gitlabFound,
                    githubSent, editor, cli >>

NextProviders ==
    \/ GithubFind
    \/ GitlabFind
    \/ GithubSave
    \/ GitlabSave

SpecProviders == InitProviders /\ [][NextProviders]_vars

(***************************************************************************)
(* config/common.mjs: editPullRequestContent on its own                    *)
(***************************************************************************)
\* titles and descriptions editPullRequestContent may be called with
EditorTitles ==
    { <<"A">>, <<" ", "A">>, <<"-", "-", "-">>, <<"A", "\n", "B">>, <<>> }

EditorDescriptions ==
    { <<"x">>, <<"x", "\n">>, <<"y", "\n", "z">>, <<"-", "-", "-">>, <<>> }

InitEditor ==
    /\ WorkflowIdle
    /\ MoreIdle
    /\ ProvidersIdle
    /\ edInput \in [title : EditorTitles, description : EditorDescriptions]
    /\ edReturned = <<>>
    /\ edResult = <<>>
    /\ CliIdle

\* lines 114-117: the editor is given the composed buffer and returns it as
\* it is, or returns what the user wrote instead
EditorReturns ==
    /\ edReturned = <<>>
    /\ \E editedContent \in
            { ComposeContent(edInput.title, edInput.description) }
                \cup EditedBuffers :
        edReturned' = << editedContent >>
    /\ UNCHANGED << workflow, more, providers, edInput, edResult, cli >>

\* lines 119-142: the returned buffer is parsed
ParseEdited ==
    /\ edReturned # <<>>
    /\ edResult = <<>>
    /\ edResult' = << editPullRequestContent(edInput.title,
                                             edInput.description,
                                             edReturned[1]) >>
    /\ UNCHANGED << workflow, more, providers, edInput, edReturned, cli >>

NextEditor ==
    \/ EditorReturns
    \/ ParseEdited

SpecEditor == InitEditor /\ [][NextEditor]_vars

(***************************************************************************)
(* cli/common-cli-flags.mjs                                                *)
(***************************************************************************)
\* the default order of the shared flags (line 27)
CommonFlags ==
    << "create-token", "create-ai-token", "configure-editor", "use-model",
       "show-config" >>

KnownFlags == { CommonFlags[i] : i \in DOMAIN CommonFlags }

\* the handler the branch of a flag calls
Handler(flag, toolName) ==
    CASE flag = "create-token" ->
             IF toolName = "gen-mr" THEN "configureGitlabToken"
             ELSE "configureGithubToken"
      [] flag = "create-ai-token" -> "createAiToken"
      [] flag = "configure-editor" -> "configureEditor"
      [] flag = "use-model" -> "setChatGPTModel"
      [] flag = "show-config" -> "showCurrentConfig"

\* include lists a caller may pass; the empty one stands for no list
IncludeLists ==
    { <<>>,
      << "show-config", "use-model" >>,
      << "use-model", "verbose", "create-token", "use-model" >> }

\* argv[flag] is truthy
Argvs == [KnownFlags -> BOOLEAN]

\* the outcome of a call: the handlers invoked, and the value returned
\* unless the call threw
Handled(invoked, handlerOk) ==
    [invoked |-> invoked, returned |-> handlerOk, threw |-> ~handlerOk]

RECURSIVE ScanFlags_NoReturn(_, _, _)
\* a loop that goes on after it handled a flag
ScanFlags_NoReturn(flagsOrder, i, call) ==
    IF i > Len(flagsOrder)
    THEN [invoked |-> <<>>, returned |-> FALSE, threw |-> FALSE]
    ELSE LET flag == flagsOrder[i]
             rest == ScanFlags_NoReturn(flagsOrder, i + 1, call)
         IN  IF flag \in KnownFlags /\ call.argv[flag]
             THEN IF call.handlerOk
                  THEN [invoked |-> << Handler(flag, call.toolName) >>
                                        \o rest.invoked,
                        returned |-> TRUE, threw |-> rest.threw]
                  ELSE Handled(<< Handler(flag, call.toolName) >>, FALSE)
             ELSE rest

RECURSIVE ScanFlags(_, _, _)
\* lines 31-82: the loop over flagsOrder from its i-th flag on
ScanFlags(flagsOrder, i, call) ==
    IF i > Len(flagsOrder)
    THEN [invoked |-> <<>>, returned |-> FALSE, threw |-> FALSE]
    ELSE LET flag == flagsOrder[i]
         IN  IF flag \in KnownFlags /\ call.argv[flag]
             THEN Handled(<< Handler(flag, call.toolName) >>, call.handlerOk)
             ELSE ScanFlags(flagsOrder, i + 1, call)

\* lines 24-27
FlagsOrder(include) == IF Len(include) > 0 THEN include ELSE CommonFlags

handleCommonCliFlags(call) == ScanFlags(FlagsOrder(call.include), 1, call)

InitCli ==
    /\ WorkflowIdle
    /\ MoreIdle
    /\ ProvidersIdle
    /\ EditorIdle
    /\ cliCall \in [argv : Argvs, include : IncludeLists,
                    toolName : { "gen-mr", "gen-pr" }, handlerOk : BOOLEAN]
    /\ cliResult = <<>>

CallHandleCommonCliFlags ==
    /\ cliResult = <<>>
    /\ cliResult' = << handleCommonCliFlags(cliCall) >>
    /\ UNCHANGED << workflow, more, providers, editor, cliCall >>

NextCli == CallHandleCommonCliFlags

SpecCli == InitCli /\ [][NextCli]_vars


(***************************************************************************)
(* config/validation.mjs and the main of gen-pr: what is checked before    *)
(* executePRWorkflow is called                                             *)
(***************************************************************************)
\* validateBranchSyncAndGetRemote taking a branch that is ahead of its
\* upstream as the only branch out of sync
validateBranchSyncAndGetRemote_AheadOnly(git) ==
    IF git.upstreamRef = <<>> THEN SyncThrew("no upstream")
    ELSE IF ~git.fetchOk THEN SyncThrew("fetch")
    ELSE IF ~git.revList.ok THEN SyncThrew("compare")
    ELSE LET counts == getAheadBehind(git.revList)
         IN  IF counts.ahead > 0 THEN SyncThrew("ahead")
             ELSE IF ~git.revParse.ok THEN SyncThrew("sha")
             ELSE [threw |-> FALSE, error |-> "",
                   githubRemoteBranch |-> Tail(git.upstreamRef),
                   upstreamRemote |-> Head(git.upstreamRef),
                   commitSha |-> git.revParse.sha]

\* validateBranchSyncAndGetRemote: the upstream ref, the fetch, the two
\* counts and the commit, in this order; the first check that fails throws
validateBranchSyncAndGetRemote(git) ==
    IF git.upstreamRef = <<>> THEN SyncThrew("no upstream")
    ELSE IF ~git.fetchOk THEN SyncThrew("fetch")
    ELSE IF ~git.revList.ok THEN SyncThrew("compare")
    ELSE LET counts == getAheadBehind(git.revList)
         IN  IF counts.ahead > 0 /\ counts.behind > 0
             THEN SyncThrew("diverged")
             ELSE IF counts.ahead > 0 THEN SyncThrew("ahead")
             ELSE IF counts.behind > 0 THEN SyncThrew("behind")
             ELSE IF ~git.revParse.ok THEN SyncThrew("sha")
             ELSE [threw |-> FALSE, error |-> "",
                   githubRemoteBranch |-> Tail(git.upstreamRef),
                   upstreamRemote |-> Head(git.upstreamRef),
                   commitSha |-> git.revParse.sha]

InitStartup ==
    /\ WorkflowIdle
    /\ ProvidersIdle
    /\ EditorIdle
    /\ CliIdle
    /\ PromptIdle
    /\ AwaitIdle
    /\ mainPc = "source"
    /\ gitSource \in BranchGits
    /\ gitTarget \in BranchGits
    /\ sourceSync = NoSync
    /\ targetSync = NoSync
    /\ mainExit = Running
    /\ workflowCall = NoCall

\* main, the first try: the source branch is checked
ValidateSource ==
    /\ mainPc = "source"
    /\ sourceSync' = validateBranchSyncAndGetRemote(gitSource)
    /\ mainPc' = IF sourceSync'.threw THEN "exited" ELSE "target"
    /\ mainExit' = IF sourceSync'.threw THEN 1 ELSE mainExit
    /\ UNCHANGED << workflow, providers, editor, cli, promptgen, awaits,
                    gitSource, gitTarget, targetSync, workflowCall >>

\* main, the second try: the target branch is checked
ValidateTarget ==
    /\ mainPc = "target"
    /\ targetSync' = validateBranchSyncAndGetRemote(gitTarget)
    /\ mainPc' = IF targetSync'.threw THEN "exited" ELSE "compare"
    /\ mainExit' = IF targetSync'.threw THEN 1 ELSE mainExit
    /\ UNCHANGED << workflow, providers, editor, cli, promptgen, awaits,
                    gitSource, gitTarget, sourceSync, workflowCall >>

\* main: sourceSha === targetSha ends the process, otherwise
\* executePRWorkflow is called with the remote-tracked names
CompareCommits ==
    /\ mainPc = "compare"
    /\ IF sourceSync.commitSha = targetSync.commitSha
       THEN /\ mainPc' = "exited"
            /\ mainExit' = 1
            /\ workflowCall' = workflowCall
       ELSE /\ mainPc' = "workflow"
            /\ mainExit' = mainExit
            /\ workflowCall' =
                   [called |-> TRUE,
                    sourceBranch |-> SourceBranch,
                    targetBranch |-> TargetBranch,
                    remoteSourceBranch |-> sourceSync.githubRemoteBranch,
                    remoteTargetBranch |-> targetSync.githubRemoteBranch,
                    remoteName |-> OrBranch(sourceSync.upstreamRemote, "origin")]
    /\ UNCHANGED << workflow, providers, editor, cli, promptgen, awaits,
                    gitSource, gitTarget, sourceSync, targetSync >>

NextStartup ==
    \/ ValidateSource
    \/ ValidateTarget
    \/ CompareCommits

SpecStartup == InitStartup /\ [][NextStartup]_vars


(***************************************************************************)
(* prompt-generator.mjs, generateMergeRequestPrompt.  The prompt is the    *)
(* sequence of its sections.                                               *)
(***************************************************************************)
\* the slot of a fetch holds a promise iff its option is set
SlotEnabled(call, slot) ==
    CASE slot = "commits" -> call.includeCommitMessages
      [] slot = "files" -> call.includeChangedFiles
      [] slot = "diff" -> call.includeGitDiff

\* lines 61-78: the header and the parts that need no git command
PromptHead(call) ==
    << "header" >>
        \o (IF call.previousResult THEN << "previous" >> ELSE <<>>)
        \o (IF Trim(call.additionalInstructions) # <<>>
            THEN << "instructions" >> ELSE <<>>)
        \o (IF Trim(call.jiraTickets) # <<>> THEN << "jira" >> ELSE <<>>)

\* lines 105-149: one section per enabled fetch, in the fixed order; a
\* fetch that found nothing gets the "No ... found" line
SlotSection(call, fetch, slot) ==
    IF ~SlotEnabled(call, slot) THEN <<>>
    ELSE IF fetch[slot].value = "some" THEN << slot >>
    ELSE << slot \o ":none" >>

GitSections(call, fetch) ==
    SlotSection(call, fetch, "commits")
        \o SlotSection(call, fetch, "files")
        \o SlotSection(call, fetch, "diff")

\* a generator that keeps the sections of the fetches that resolved when
\* another fetch was rejected
PromptAfterFetches_KeepsResolved(call, fetch) ==
    LET Kept(slot) == IF fetch[slot].state = "resolved"
                      THEN SlotSection(call, fetch, slot)
                      ELSE <<>>
    IN  Kept("commits") \o Kept("files") \o Kept("diff")

\* lines 95-103 and 150-152: a rejection of Promise.all is thrown again and
\* caught by the outer catch, which only warns
PromptAfterFetches(call, fetch) ==
    IF \E s \in Slots : fetch[s].state = "rejected"
    THEN <<>>
    ELSE GitSections(call, fetch)

InitPrompt ==
    /\ WorkflowIdle
    /\ ProvidersIdle
    /\ EditorIdle
    /\ CliIdle
    /\ StartupIdle
    /\ AwaitIdle
    /\ pgPc = "called"
    /\ pgCall \in PromptCalls
    /\ pgFetch = [s \in Slots |-> FetchOff]
    /\ pgPrompt = <<>>
    /\ pgWarned = FALSE

\* lines 61-103: the head of the prompt is built, the enabled fetches are
\* called one after the other without an await in between, and
\* Promise.all is awaited
StartFetches ==
    /\ pgPc = "called"
    /\ pgPrompt' = PromptHead(pgCall)
    /\ pgFetch' = [s \in Slots |->
                      IF SlotEnabled(pgCall, s) THEN FetchPending ELSE FetchOff]
    /\ pgPc' = "awaiting"
    /\ UNCHANGED << workflow, providers, editor, cli, startup, awaits,
                    pgCall, pgWarned >>

\* a git command of a pending fetch ends and the fetch returns its value
FetchResolves ==
    /\ \E s \in Slots, v \in { "none", "some" } :
        /\ pgFetch[s].state = "pending"
        /\ pgFetch' = [pgFetch EXCEPT ![s] = [state |-> "resolved", value |-> v]]
    /\ UNCHANGED << workflow, providers, editor, cli, startup, awaits,
                    pgPc, pgCall, pgPrompt, pgWarned >>

\* a git command of a pending fetch fails and the fetch throws
FetchRejects ==
    /\ \E s \in Slots :
        /\ pgFetch[s].state = "pending"
        /\ pgFetch' = [pgFetch EXCEPT ![s] = [state |-> "rejected", value |-> "none"]]
    /\ UNCHANGED << workflow, providers, editor, cli, startup, awaits,
                    pgPc, pgCall, pgPrompt, pgWarned >>

\* lines 96-162: Promise.all settles, with the first rejection or when no
\* fetch is pending, and the function runs to its return
PromiseAllSettles ==
    /\ pgPc = "awaiting"
    /\ \/ \E s \in Slots : pgFetch[s].state = "rejected"
       \/ \A s \in Slots : pgFetch[s].state # "pending"
    /\ pgWarned' = \E s \in Slots : pgFetch[s].state = "rejected"
    /\ pgPrompt' = pgPrompt \o PromptAfterFetches(pgCall, pgFetch)
                       \o << "closing" >>
    /\ pgPc' = "returned"
    /\ UNCHANGED << workflow, providers, editor, cli, startup, awaits,
                    pgCall, pgFetch >>

NextPrompt ==
    \/ StartFetches
    \/ FetchResolves
    \/ FetchRejects
    \/ PromiseAllSettles

SpecPrompt == InitPrompt /\ [][NextPrompt]_vars


(***************************************************************************)
(* workflow.mjs at the grain of its awaits: a step runs from the return of *)
(* the awaited operation to the next await.  awOutstanding holds the       *)
(* operations that were started and have not returned.                     *)
(***************************************************************************)
\* the awaited operation returns and the next one is started
Await(returned, started, position) ==
    /\ awOutstanding' = (awOutstanding \ { returned }) \cup { started }
    /\ awAt' = position

\* showMenu: the menu is rendered and rl.question waits for the choice
ShowMenu(returned, shown) ==
    /\ Await(returned, "prompt", "menu")
    /\ awDraftAtPrompt' = shown

\* rl.close() and the return or process.exit that ends the run
EndRun(returned, how) ==
    /\ awOutstanding' = awOutstanding \ { returned }
    /\ awAt' = "done"
    /\ awOutcome' = how

\* lines 102-104 and 235-236: handleUserInteraction starts with the draft
EnterLoop(returned, generated) ==
    /\ awDraft' = generated
    /\ awOriginal' = generated
    /\ awHasChanges' = FALSE
    /\ ShowMenu(returned, generated)

InitAwait ==
    /\ WorkflowIdle
    /\ ProvidersIdle
    /\ EditorIdle
    /\ CliIdle
    /\ StartupIdle
    /\ PromptIdle
    /\ awAt = "lookup"
    /\ awOutstanding = { "lookup" }
    /\ awFound = FALSE
    /\ awEditor \in BOOLEAN
    /\ awDraft = "none"
    /\ awOriginal = "none"
    /\ awHasChanges = FALSE
    /\ awDraftAtPrompt = "none"
    /\ awChoice = ""
    /\ awTitle = ""
    /\ awOutcome = "running"

\* lines 310-343 and 391-409: the lookup returns; the gate is prompted for
\* an existing request, the generator is called otherwise
LookupReturns ==
    /\ awAt = "lookup"
    /\ \E existing \in BOOLEAN :
        /\ awFound' = existing
        /\ IF existing
           THEN Await("lookup", "prompt", "gate")
           ELSE Await("lookup", "generator", "fresh_generator")
    /\ UNCHANGED << workflow, providers, editor, cli, startup, promptgen,
                    awEditor, awDraft, awOriginal, awHasChanges,
                    awDraftAtPrompt, awChoice, awTitle, awOutcome >>

\* lines 343-390: the answer at the gate
GateAnswered ==
    /\ awAt = "gate"
    /\ \E c \in { "1", "2", "3", "x" } :
        /\ awChoice' = c
        /\ CASE c = "1" ->
                    Await("prompt", "generator", "fresh_generator")
                    /\ awOutcome' = awOutcome
             [] c = "2" ->
                    Await("prompt", "editor", "gate_editor")
                    /\ awOutcome' = awOutcome
             [] OTHER -> EndRun("prompt", "cancelled")
    /\ UNCHANGED << workflow, providers, editor, cli, startup, promptgen,
                    awFound, awEditor, awDraft, awOriginal, awHasChanges,
                    awDraftAtPrompt, awTitle >>

\* lines 348-362, 396-428: generateMergeRequestSafe returns or throws
FreshGeneratorReturns ==
    /\ awAt = "fresh_generator"
    /\ \/ /\ \E generated \in AwaitDrafts : EnterLoop("generator", generated)
          /\ awOutcome' = awOutcome
       \/ /\ EndRun("generator", "error")
          /\ UNCHANGED << awDraft, awOriginal, awHasChanges, awDraftAtPrompt >>
    /\ UNCHANGED << workflow, providers, editor, cli, startup, promptgen,
                    awFound, awEditor, awChoice, awTitle >>

\* lines 53-79 and 366-384, 412-433: the instructions editor of gate
\* option 2 returns, or throws and the undefined result ends the run
GateEditorReturns ==
    /\ awAt = "gate_editor"
    /\ \/ /\ awEditor
          /\ Await("editor", "generator", "gate_generator")
          /\ awOutcome' = awOutcome
       \/ EndRun("editor", "error")
    /\ UNCHANGED << workflow, providers, editor, cli, startup, promptgen,
                    awFound, awEditor, awDraft, awOriginal, awHasChanges,
                    awDraftAtPrompt, awChoice, awTitle >>

\* lines 71-79 and 412-433: the seeded generation of the gate returns
GateGeneratorReturns ==
    /\ awAt = "gate_generator"
    /\ \/ /\ \E generated \in AwaitDrafts : EnterLoop("generator", generated)
          /\ awOutcome' = awOutcome
       \/ /\ EndRun("generator", "error")
          /\ UNCHANGED << awDraft, awOriginal, awHasChanges, awDraftAtPrompt >>
    /\ UNCHANGED << workflow, providers, editor, cli, startup, promptgen,
                    awFound, awEditor, awChoice, awTitle >>

\* case "1": createOrUpdatePullRequest is called and awaited
MenuSave ==
    /\ awAt = "menu"
    /\ awChoice' = "1"
    /\ Await("prompt", "provider", "provider")
    /\ UNCHANGED << workflow, providers, editor, cli, startup, promptgen,
                    awFound, awEditor, awDraft, awOriginal, awHasChanges,
                    awDraftAtPrompt, awTitle, awOutcome >>

\* case "2": editWithEditor awaits getEditorCommand
MenuEdit ==
    /\ awAt = "menu"
    /\ awChoice' = "2"
    /\ Await("prompt", "config", "editor_command")
    /\ UNCHANGED << workflow, providers, editor, cli, startup, promptgen,
                    awFound, awEditor, awDraft, awOriginal, awHasChanges,
                    awDraftAtPrompt, awTitle, awOutcome >>

\* regenerateWithInstructions called without an await: the loop shows the
\* menu while the editor is open
MenuRegenerate_NotAwaited ==
    /\ awAt = "menu"
    /\ awChoice' = "3"
    /\ awOutstanding' = (awOutstanding \ { "prompt" }) \cup { "editor", "prompt" }
    /\ awAt' = "menu"
    /\ UNCHANGED << workflow, providers, editor, cli, startup, promptgen,
                    awFound, awEditor, awDraft, awOriginal, awHasChanges,
                    awDraftAtPrompt, awTitle, awOutcome >>

\* case "3": regenerateWithInstructions awaits the instructions editor
MenuRegenerate ==
    /\ awAt = "menu"
    /\ awChoice' = "3"
    /\ Await("prompt", "editor", "instructions_editor")
    /\ UNCHANGED << workflow, providers, editor, cli, startup, promptgen,
                    awFound, awEditor, awDraft, awOriginal, awHasChanges,
                    awDraftAtPrompt, awTitle, awOutcome >>

\* case "4" with changes: rollbackToOriginal, then the menu again
MenuRollback ==
    /\ awAt = "menu"
    /\ awHasChanges
    /\ awChoice' = "4"
    /\ awDraft' = awOriginal
    /\ awHasChanges' = FALSE
    /\ ShowMenu("prompt", awOriginal)
    /\ UNCHANGED << workflow, providers, editor, cli, startup, promptgen,
                    awFound, awEditor, awOriginal, awTitle, awOutcome >>

\* case "4" without changes and case "5" with changes: process.exit(0)
MenuCancel ==
    /\ awAt = "menu"
    /\ awChoice' = IF awHasChanges THEN "5" ELSE "4"
    /\ EndRun("prompt", "cancelled")
    /\ UNCHANGED << workflow, providers, editor, cli, startup, promptgen,
                    awFound, awEditor, awDraft, awOriginal, awHasChanges,
                    awDraftAtPrompt, awTitle >>

\* case "5" without changes and default: the message, then the menu again
MenuInvalid ==
    /\ awAt = "menu"
    /\ \E c \in { "5", "x" } :
        /\ c = "5" => ~awHasChanges
        /\ awChoice' = c
    /\ ShowMenu("prompt", awDraft)
    /\ UNCHANGED << workflow, providers, editor, cli, startup, promptgen,
                    awFound, awEditor, awDraft, awOriginal, awHasChanges,
                    awTitle, awOutcome >>

\* a save after which the loop goes on
ProviderReturns_LoopsOn ==
    /\ awAt = "provider"
    /\ \E ok \in BOOLEAN :
        awOutcome' = IF ok THEN "saved" ELSE "save_failed"
    /\ ShowMenu("provider", awDraft)
    /\ UNCHANGED << workflow, providers, editor, cli, startup, promptgen,
                    awFound, awEditor, awDraft, awOriginal, awHasChanges,
                    awChoice, awTitle >>

\* lines 216-240: createOrUpdatePullRequest returns or throws; rl.close()
\* and the return of the loop
ProviderReturns ==
    /\ awAt = "provider"
    /\ \E ok \in BOOLEAN :
        EndRun("provider", IF ok THEN "saved" ELSE "save_failed")
    /\ UNCHANGED << workflow, providers, editor, cli, startup, promptgen,
                    awFound, awEditor, awDraft, awOriginal, awHasChanges,
                    awDraftAtPrompt, awChoice, awTitle >>

\* lines 133-157: getEditorCommand returns; the editor is opened, or
\* editManually asks for the title
EditorCommandReturns ==
    /\ awAt = "editor_command"
    /\ IF awEditor
       THEN Await("config", "editor", "edit_editor")
       ELSE Await("config", "prompt", "manual_title")
    /\ UNCHANGED << workflow, providers, editor, cli, startup, promptgen,
                    awFound, awEditor, awDraft, awOriginal, awHasChanges,
                    awDraftAtPrompt, awChoice, awTitle, awOutcome >>

\* lines 137-155: editPullRequestContent returns and the draft is
\* replaced, or it throws and editManually asks for the title
EditEditorReturns ==
    /\ awAt = "edit_editor"
    /\ \/ /\ awDraft' = "e"
          /\ awHasChanges' = TRUE
          /\ ShowMenu("editor", "e")
       \/ /\ Await("editor", "prompt", "manual_title")
          /\ UNCHANGED << awDraft, awHasChanges, awDraftAtPrompt >>
    /\ UNCHANGED << workflow, providers, editor, cli, startup, promptgen,
                    awFound, awEditor, awOriginal, awChoice, awTitle,
                    awOutcome >>

\* lines 162-163: the title is answered and the description is asked for
TitleAnswered ==
    /\ awAt = "manual_title"
    /\ awTitle' \in { "", "M" }
    /\ Await("prompt", "prompt", "manual_description")
    /\ UNCHANGED << workflow, providers, editor, cli, startup, promptgen,
                    awFound, awEditor, awDraft, awOriginal, awHasChanges,
                    awDraftAtPrompt, awChoice, awOutcome >>

\* lines 163-169: the description is answered, the draft takes the answers
\* that are not empty, and the loop shows the menu
DescriptionAnswered ==
    /\ awAt = "manual_description"
    /\ \E description \in { "", "n" } :
        LET entered == IF awTitle = "" /\ description = ""
                       THEN awDraft ELSE "m"
        IN  /\ awDraft' = entered
            /\ ShowMenu("prompt", entered)
    /\ awHasChanges' = TRUE
    /\ UNCHANGED << workflow, providers, editor, cli, startup, promptgen,
                    awFound, awEditor, awOriginal, awChoice, awTitle,
                    awOutcome >>

\* lines 53-79 and 175-200: the instructions editor returns and the
\* generator is called, or it throws and the loop goes on
InstructionsEditorReturns ==
    /\ awAt = "instructions_editor"
    /\ \/ /\ awEditor
          /\ Await("editor", "generator", "regenerate_generator")
          /\ awDraftAtPrompt' = awDraftAtPrompt
       \/ ShowMenu("editor", awDraft)
    /\ UNCHANGED << workflow, providers, editor, cli, startup, promptgen,
                    awFound, awEditor, awDraft, awOriginal, awHasChanges,
                    awChoice, awTitle, awOutcome >>

\* lines 71-79 and 187-200: the generator returns and the draft is
\* replaced, or it throws and the draft is kept
RegenerateGeneratorReturns ==
    /\ awAt = "regenerate_generator"
    /\ \/ /\ \E generated \in AwaitDrafts :
                /\ awDraft' = generated
                /\ ShowMenu("generator", generated)
          /\ awHasChanges' = TRUE
       \/ /\ UNCHANGED << awDraft, awHasChanges >>
          /\ ShowMenu("generator", awDraft)
    /\ UNCHANGED << workflow, providers, editor, cli, startup, promptgen,
                    awFound, awEditor, awOriginal, awChoice, awTitle,
                    awOutcome >>

\* the operation that is awaited returns, or the prompt is answered
Returns ==
    \/ LookupReturns
    \/ GateAnswered
    \/ FreshGeneratorReturns
    \/ GateEditorReturns
    \/ GateGeneratorReturns
    \/ ProviderReturns
    \/ EditorCommandReturns
    \/ EditEditorReturns
    \/ TitleAnswered
    \/ DescriptionAnswered
    \/ InstructionsEditorReturns
    \/ RegenerateGeneratorReturns

NextAwait ==
    \/ LookupReturns
    \/ GateAnswered
    \/ FreshGeneratorReturns
    \/ GateEditorReturns
    \/ GateGeneratorReturns
    \/ MenuSave
    \/ MenuEdit
    \/ MenuRegenerate
    \/ MenuRollback
    \/ MenuCancel
    \/ MenuInvalid
    \/ ProviderReturns
    \/ EditorCommandReturns
    \/ EditEditorReturns
    \/ TitleAnswered
    \/ DescriptionAnswered
    \/ InstructionsEditorReturns
    \/ RegenerateGeneratorReturns

SpecAwait == InitAwait /\ [][NextAwait]_vars

\* every awaited operation returns, every prompt of the gate and of manual
\* entry is answered, and the user comes to choose Save or Cancel
AwaitFairness ==
    /\ WF_vars(Returns)
    /\ SF_vars(MenuSave \/ MenuCancel)

SpecAwaitLive == InitAwait /\ [][NextAwait]_vars /\ AwaitFairness


(***************************************************************************)
(* Properties                                                              *)
(***************************************************************************)
\* the lookup of this run returned an open pull request
LookupFound == lookupResponse.ok /\ Len(lookupResponse.pulls) > 0

\* C1: the provider's create-or-update is invoked at most once in a run,
\* and only by the Save option (choice 1) of the Reviewing menu.
C1_MutatedAtMostOnceBySave ==
    /\ Len(providerCalls) <= 1
    /\ providerCalls # <<>> =>
           /\ lastMenu = "review"
           /\ lastChoice = <<"1">>
           /\ lastOp = "save"
           /\ pc = "done"

\* a run that went through the gate, changed the draft and saved
C1_Witness ==
    /\ Len(providerCalls) = 1
    /\ firstPrompt = "gate"
    /\ hasChanges

\* C2: a run that ends by a Cancel choice (gate option 3, Reviewing option 4
\* without changes or 5 with changes) has sent nothing to the provider,
\* whatever Edit, Regenerate, Rollback and invalid inputs came before.
C2_CancelSendsNothing ==
    outcome = "cancelled" => providerCalls = <<>>

\* a cancel by option 5 after an edit and a regeneration
C2_Witness ==
    /\ outcome = "cancelled"
    /\ lastMenu = "review"
    /\ lastChoice = <<"5">>
    /\ genCalls >= 2

\* C3: Save sends an update (a non-null existing request) only if the lookup
\* of the run returned a request; after a lookup that returned none or
\* failed every Save is a create.
C3_UpdateOnlyIfLookupFound ==
    \A i \in DOMAIN providerCalls :
        /\ providerCalls[i].method = "PATCH" => LookupFound
        /\ ~LookupFound =>
               providerCalls[i].method = "POST" /\ providerCalls[i].pr = 0

\* a create after a failed lookup
C3_Witness ==
    /\ providerCalls # <<>>
    /\ ~lookupResponse.ok

\* C4: when the lookup found a request, every Save updates that request by
\* its number and never creates one, whichever gate option was taken and
\* whatever happened in Reviewing.
C4_FoundRequestIsUpdated ==
    LookupFound =>
        \A i \in DOMAIN providerCalls :
            /\ providerCalls[i].method = "PATCH"
            /\ providerCalls[i].pr = lookupResponse.pulls[1].number

\* an update after the seeded gate option and a later change of the draft
C4_Witness ==
    /\ LookupFound
    /\ providerCalls # <<>>
    /\ bridgeCalls >= 2
    /\ hasChanges

\* C5: right after a Rollback the live draft's title and description are
\* those of the initial generation, whatever Edit and Regenerate operations
\* came before.
C5_RollbackRestoresInitial ==
    lastOp = "rollback" =>
        /\ currentResult.title = initialResult.title
        /\ currentResult.description = initialResult.description

\* a rollback after a regeneration had replaced the draft
C5_Witness ==
    /\ lastOp = "rollback"
    /\ genCalls >= 2
    /\ lastEdit.title # initialResult.title
    /\ lastEdit.description # initialResult.description

\* C6: hasChanges is false when Reviewing is entered and right after every
\* Rollback, and true right after every successful Edit (editor or manual)
\* and every successful Regenerate.
C6_HasChangesAfterEachStep ==
    /\ lastOp \in { "generated", "seeded", "rollback" } => ~hasChanges
    /\ lastOp \in { "edit", "manual", "manual_after_error", "regenerated" }
           => hasChanges

\* a rollback after a successful edit or regeneration through the editor
C6_Witness ==
    /\ lastOp = "rollback"
    /\ ~hasChanges
    /\ lastEdit # NoDraft
    /\ bridgeCalls >= 1

\* C7 as stated: in Reviewing, hasChanges is true if and only if the live
\* draft differs from the original snapshot.
C7_HasChangesIffDraftDiffers ==
    pc = "review" => (hasChanges <=> currentResult # originalResult)

\* C7 amended: in Reviewing, a live draft that differs from the original
\* snapshot implies hasChanges; hasChanges may also be true of an equal draft.
C7_DraftDiffersImpliesHasChanges ==
    pc = "review" /\ currentResult # originalResult => hasChanges

\* a changed draft in Reviewing
C7_Witness ==
    /\ pc = "review"
    /\ currentResult # originalResult
    /\ hasChanges

\* C8: the title and description sent at Save are the live draft's: what the
\* last successful Edit or Regenerate since the last Rollback wrote, or the
\* initially generated content when there was none.
C8_SaveSendsLiveDraft ==
    \A i \in DOMAIN providerCalls :
        LET data == providerCalls[i].data
        IN  /\ data.title = currentResult.title
            /\ data.body = currentResult.description
            /\ hasChanges =>
                   data.title = lastEdit.title
                       /\ data.body = lastEdit.description
            /\ ~hasChanges =>
                   data.title = initialResult.title
                       /\ data.body = initialResult.description

\* a save of a draft that an edit or regeneration had changed
C8_Witness ==
    /\ lastOp = "save"
    /\ hasChanges
    /\ currentResult # originalResult

\* C9: one call of createOrUpdatePullRequest sends exactly one request: a
\* PATCH to the existing request's number carrying only title and body when
\* an existing request is supplied, otherwise a POST carrying head, base,
\* title and body.
C9_OneRequestPerCall ==
    lastOp = "save" =>
        /\ Len(providerCalls) = 1
        /\ LET c == providerCalls[1]
           IN  IF existingPR # NoPR
               THEN /\ c.method = "PATCH"
                    /\ c.pr = existingPR.number
                    /\ DOMAIN c.data = { "title", "body" }
                    /\ c.data.title = currentResult.title
                    /\ c.data.body = currentResult.description
               ELSE /\ c.method = "POST"
                    /\ c.pr = 0
                    /\ DOMAIN c.data = { "head", "base", "title", "body" }
                    /\ c.data.head = OrBranch(remoteSourceBranch, SourceBranch)
                    /\ c.data.base = OrBranch(remoteTargetBranch, TargetBranch)
                    /\ c.data.title = currentResult.title
                    /\ c.data.body = currentResult.description

\* a save that updated the second kind of existing request
C9_Witness ==
    /\ lastOp = "save"
    /\ existingPR = PR2
    /\ remoteSourceBranch # ""

\* C10: when gate option 2 fails (the instructions editor or the seeded
\* generation), the engine falls back to a fresh generation and the run does
\* not end in the workflow error.
C10_SeededFailureFallsBackToFresh ==
    fallbackLogged =>
        /\ lastGen.kind = "fresh"
        /\ lastOp # "seeded_failed"

\* C11: when the fresh generation fails (no existing request, or gate
\* option 1) the run ends with a non-zero exit code, Reviewing is never
\* entered and the provider is never called.
C11_FreshFailureIsFatal ==
    lastOp = "generation_failed" =>
        /\ pc = "done"
        /\ outcome = "error"
        /\ exitCode # 0
        /\ exitCode # Running
        /\ lastMenu # "review"
        /\ firstPrompt # "review"
        /\ currentResult = NoDraft
        /\ providerCalls = <<>>

\* a failed fresh generation chosen at the gate
C11_Witness ==
    /\ lastOp = "generation_failed"
    /\ lastMenu = "gate"
    /\ lastChoice = <<"1">>

\* C12: a Regenerate in Reviewing that fails (instructions editor or
\* generator) leaves the live draft and hasChanges as they were and returns
\* to the menu; a Save right after it sends that unchanged content.
C12_FailedRegenerateChangesNothing ==
    [][ /\ lastOp' = "regenerate_failed" =>
               /\ currentResult' = currentResult
               /\ hasChanges' = hasChanges
               /\ pc' = "review"
               /\ outcome' = "running"
        /\ lastOp = "regenerate_failed" /\ lastOp' = "save" =>
               /\ Len(providerCalls') = 1
               /\ providerCalls'[1].data.title = currentResult.title
               /\ providerCalls'[1].data.body = currentResult.description
      ]_vars

\* a regeneration whose generator call failed, on an unchanged draft
C12_Witness ==
    /\ lastOp = "regenerate_failed"
    /\ lastGen.kind = "seeded"
    /\ pc = "review"
    /\ ~hasChanges

\* C13: an editor failure during Edit does not end the run: the title and
\* description are asked for manually, the non-empty answers replace the
\* fields, and a Save right after it sends them.
C13_EditorFailureFallsBackToManual ==
    [][ /\ lastOp' = "manual_after_error" =>
               /\ pc' = "review"
               /\ outcome' = "running"
               /\ exitCode' = Running
               /\ lastManual'.title # <<>> =>
                      currentResult'.title = lastManual'.title
               /\ lastManual'.description # <<>> =>
                      currentResult'.description = lastManual'.description
        /\ lastOp = "manual_after_error" /\ lastOp' = "save" =>
               /\ Len(providerCalls') = 1
               /\ lastManual.title # <<>> =>
                      providerCalls'[1].data.title = lastManual.title
               /\ lastManual.description # <<>> =>
                      providerCalls'[1].data.body = lastManual.description
      ]_vars

\* a save of the values typed after an editor failure
C13_Witness ==
    /\ lastOp = "save"
    /\ editorCommand
    /\ lastManual = [title |-> <<"M">>, description |-> <<"n">>]
    /\ providerCalls[1].data.title = <<"M">>
    /\ providerCalls[1].data.body = <<"n">>

\* C14: a failed lookup is not fatal: it yields null with a warning, no gate
\* menu is shown, the run goes on to the fresh generation and every Save is
\* a create, as when no request exists.
C14_LookupFailureIsNotFatal ==
    lookupCalls = 1 /\ ~lookupResponse.ok =>
        /\ existingPR = NoPR
        /\ lookupWarned
        /\ pc # "gate"
        /\ firstPrompt # "gate"
        /\ lastOp = "lookup" =>
               pc = "generate" /\ outcome = "running" /\ exitCode = Running
        /\ \A i \in DOMAIN providerCalls :
               providerCalls[i].method = "POST" /\ providerCalls[i].pr = 0

\* Reviewing reached after a failed lookup
C14_Witness ==
    /\ ~lookupResponse.ok
    /\ lookupWarned
    /\ pc = "review"

\* C15: a Cancel (option 3) at the gate ends the run before any generator
\* call and before any editor call.
C15_GateCancelBeforeAnyCall ==
    lastOp = "gate_cancel" =>
        /\ pc = "done"
        /\ outcome = "cancelled"
        /\ genCalls = 0
        /\ bridgeCalls = 0
        /\ providerCalls = <<>>

\* option 3 typed at the gate
C15_Witness ==
    /\ lastOp = "gate_cancel"
    /\ lastChoice = <<"3">>
    /\ existingPR # NoPR

\* C16: at the gate an input other than 1, 2 or 3 is invalid: the gate is
\* prompted again and the run is not cancelled.
C16_GateInvalidInputReprompts ==
    lastMenu = "gate" /\ lastChoice \notin { <<"1">>, <<"2">>, <<"3">> } =>
        /\ pc = "gate"
        /\ outcome = "running"

\* the menu options offered in Reviewing for a value of hasChanges
Offered(choice, changed) ==
    \/ choice \in { <<"1">>, <<"2">>, <<"3">>, <<"4">> }
    \/ choice = <<"5">> /\ changed

\* C17: in Reviewing, input 4 rolls back when hasChanges is true and cancels
\* otherwise; input 5 cancels when hasChanges is true and is invalid
\* otherwise; a rollback never happens while hasChanges is false.
C17_MenuFourAndFive ==
    [][ pc = "review" =>
          /\ lastChoice' = <<"4">> /\ hasChanges =>
                 lastOp' = "rollback" /\ pc' = "review"
          /\ lastChoice' = <<"4">> /\ ~hasChanges =>
                 lastOp' = "review_cancel" /\ outcome' = "cancelled"
          /\ lastChoice' = <<"5">> /\ hasChanges =>
                 lastOp' = "review_cancel" /\ outcome' = "cancelled"
          /\ lastChoice' = <<"5">> /\ ~hasChanges =>
                 lastOp' = "invalid" /\ pc' = "review"
          /\ lastOp' = "rollback" => hasChanges /\ lastChoice' = <<"4">>
      ]_vars

\* input 5 rejected after a rollback had cleared hasChanges
C17_Witness ==
    /\ lastOp = "invalid"
    /\ lastChoice = <<"5">>
    /\ ~hasChanges
    /\ lastEdit # NoDraft

\* C18: an input that is not an offered option leaves the live draft, the
\* snapshot and hasChanges as they were, calls neither generator, editor nor
\* provider, and the menu is shown again.
C18_InvalidInputChangesNothing ==
    [][ pc = "review" /\ ~Offered(lastChoice', hasChanges) =>
          /\ lastOp' = "invalid"
          /\ UNCHANGED << currentResult, originalResult, hasChanges,
                          genCalls, bridgeCalls, providerCalls >>
          /\ pc' = "review"
          /\ outcome' = "running"
      ]_vars

\* an unrecognized input on a changed draft
C18_Witness ==
    /\ lastOp = "invalid"
    /\ lastChoice = <<"9">>
    /\ hasChanges
    /\ invalidRange = "1-5"

\* C19: when the lookup finds no request the fresh generation is made
\* without reading any input: the first prompt is the Reviewing menu.
C19_NoPromptBeforeFreshGeneration ==
    lookupCalls = 1 /\ existingPR = NoPR =>
        /\ firstPrompt # "gate"
        /\ genCalls = 0 => firstPrompt = "none"
        /\ lastOp \in { "generated", "generation_failed" } =>
               /\ firstPrompt = "none"
               /\ lastGen.kind = "fresh"
               /\ genCalls = 1

\* the Reviewing menu as first prompt after an empty lookup
C19_Witness ==
    /\ lookupResponse.ok
    /\ existingPR = NoPR
    /\ firstPrompt = "review"
    /\ lastMenu = "review"

\* C20: every generator call made from Reviewing is seeded with the live
\* draft's title and description at the time of the call.
C20_RegenerateSeededFromLiveDraft ==
    [][ pc = "review" /\ genCalls' # genCalls =>
          /\ lastGen'.kind = "seeded"
          /\ lastGen'.previousResult.title = currentResult.title
          /\ lastGen'.previousResult.description = currentResult.description
      ]_vars

\* a regeneration seeded with manually typed content while a request exists
C20_Witness ==
    /\ pc = "review"
    /\ existingPR # NoPR
    /\ lastGen.kind = "seeded"
    /\ lastGen.previousResult = [title |-> <<"M">>, description |-> <<"n">>]

\* C21: gate option 2 calls the generator with previousResult made of the
\* existing request's title and body, the description being the empty
\* string when the body is empty or missing, and with the instructions
\* obtained from the editor.
C21_GateSeedIsExistingRequest ==
    lastOp \in { "seeded", "seeded_failed" } /\ genCalls = 1 =>
        /\ lastGen.kind = "seeded"
        /\ lastGen.previousResult.title = existingPR.title
        /\ lastGen.previousResult.description =
               (IF existingPR.body \in { <<>>, Missing } THEN <<>>
                ELSE existingPR.body)
        /\ lastGen.additionalInstructions = FilterInstructions(lastUserInput)

\* a seeded generation from a request without a body, with instructions
C21_Witness ==
    /\ lastOp = "seeded"
    /\ existingPR = PR3
    /\ lastGen.previousResult = [title |-> <<"Q">>, description |-> <<>>]
    /\ lastGen.additionalInstructions # <<>>

\* the first character of the line that is not white space is '#'
StartsWithHash(line) ==
    \E k \in 1..Len(line) :
        /\ line[k] = "#"
        /\ \A j \in 1..(k - 1) : IsSpace(line[j])

\* core is full without its leading and trailing white space
IsTrimOf(core, full) ==
    \E i \in 0..Len(full) :
        /\ i + Len(core) <= Len(full)
        /\ SubSeq(full, i + 1, i + Len(core)) = core
        /\ \A k \in 1..i : IsSpace(full[k])
        /\ \A k \in (i + Len(core) + 1)..Len(full) : IsSpace(full[k])
        /\ core # <<>> => ~IsSpace(core[1]) /\ ~IsSpace(core[Len(core)])

\* C22: the additionalInstructions passed to the generator are the editor
\* buffer without the lines whose first non-white-space character is '#',
\* the remaining lines in their order and with their content, trimmed of
\* leading and trailing blank padding.
C22_InstructionsAreFilteredBuffer ==
    lastGen.kind = "seeded" =>
        IsTrimOf(lastGen.additionalInstructions,
                 Join(SelectSeq(Split(lastUserInput),
                                LAMBDA line : ~StartsWithHash(line))))

\* instructions of two lines around an indented comment and a blank line
C22_Witness ==
    /\ lastGen.kind = "seeded"
    /\ lastUserInput =
           <<" ", "p", "\n", "\t", "#", "c", "\n", "\n", "q", " ", "r", "\n">>
    /\ lastGen.additionalInstructions = <<"p", "\n", "\n", "q", " ", "r">>

\* C23: without a configured editor command, Edit (option 2) goes directly
\* to the manual entry of title and description and the editor bridge is
\* not invoked for that Edit.
C23_NoEditorGoesToManualEntry ==
    [][ pc = "review" /\ ~editorCommand /\ lastChoice' = <<"2">> =>
          /\ lastOp' = "manual"
          /\ bridgeCalls' = bridgeCalls
          /\ currentResult' = editManually(currentResult, lastManual'.title,
                                           lastManual'.description)
          /\ pc' = "review"
      ]_vars

\* a title typed at the manual entry of a run without editor
C23_Witness ==
    /\ lastOp = "manual"
    /\ ~editorCommand
    /\ bridgeCalls = 0
    /\ currentResult.title = <<"M">>

\* C24: when the provider call of Save fails the run ends: no second
\* provider call, no return to the Reviewing menu, and the live draft is
\* what it was before the Save.
C24_SaveFailureEndsRun ==
    [][ /\ outcome' = "save_failed" =>
               /\ lastOp' = "save"
               /\ pc' = "done"
               /\ Len(providerCalls') = 1
               /\ providerCalls = <<>>
               /\ currentResult' = currentResult
               /\ originalResult' = originalResult
               /\ hasChanges' = hasChanges
        /\ outcome # "save_failed"
      ]_vars

\* a failed update of an existing request with a changed draft
C24_Witness ==
    /\ outcome = "save_failed"
    /\ existingPR # NoPR
    /\ hasChanges
    /\ Len(providerCalls) = 1

\* C25: every cancellation, at the gate or in Reviewing, ends the run with
\* exit code 0; a fatal generation or workflow error ends it with a
\* non-zero exit code.
C25_CancelExitsZeroErrorNonZero ==
    /\ lastOp \in { "gate_cancel", "review_cancel" } => outcome = "cancelled"
    /\ outcome = "cancelled" => pc = "done" /\ exitCode = 0
    /\ outcome = "error" =>
           pc = "done" /\ exitCode # 0 /\ exitCode # Running

\* a cancel in Reviewing of a run that went through the gate
C25_Witness ==
    /\ outcome = "cancelled"
    /\ exitCode = 0
    /\ lastMenu = "review"
    /\ lastChoice = <<"4">>
    /\ firstPrompt = "gate"

\* C26: findExistingPullRequest returns at most one request: the first of
\* the provider's list of open requests when the list is not empty, null
\* when it is empty; it never throws, the run goes on after every lookup.
C26_LookupReturnsFirstOrNull ==
    lookupCalls = 1 =>
        /\ lookupResponse.ok /\ Len(lookupResponse.pulls) > 0 =>
               existingPR = lookupResponse.pulls[1]
        /\ lookupResponse.ok /\ Len(lookupResponse.pulls) = 0 =>
               existingPR = NoPR
        /\ ~lookupResponse.ok => existingPR = NoPR
        /\ lastOp = "lookup" =>
               /\ outcome = "running"
               /\ exitCode = Running
               /\ pc \in { "gate", "generate" }

\* a lookup that was answered with two open requests
C26_Witness ==
    /\ lastOp = "lookup"
    /\ Len(lookupResponse.pulls) = 2
    /\ existingPR = PR2

\* the title and description of the request the lookup returned
ExistingContent ==
    [title |-> existingPR.title, description |-> OrElse(existingPR.body, <<>>)]

\* C30: the original snapshot is the first successfully generated draft, on
\* the fresh and on the seeded path alike and never the content of the
\* existing request, and no Edit, manual entry, Regenerate or Rollback
\* changes its title or description.
C30_SnapshotIsFirstGeneratedDraft ==
    [][ /\ pc # "review" /\ pc' = "review" =>
               /\ originalResult' \in GenResults
               /\ originalResult'.title = initialResult'.title
               /\ originalResult'.description = initialResult'.description
               /\ originalResult' = currentResult'
               /\ originalResult' # ExistingContent'
               /\ genCalls' = 1
        /\ pc = "review" => originalResult' = originalResult
      ]_vars

\* a snapshot of the seeded path kept through an edit and a rollback
C30_Witness ==
    /\ lastOp = "rollback"
    /\ firstPrompt = "gate"
    /\ lastEdit # NoDraft
    /\ lastEdit # originalResult
    /\ originalResult \in GenResults
    /\ lastGen.kind = "seeded"
    /\ lastGen.previousResult = ExistingContent

\* C27: on the same remote and with the same arguments the GitHub and the
\* GitLab provider agree: both lookups return null or the first open request
\* (GitLab's with html_url = web_url and body = description), both saves
\* update if and only if an existing request is supplied, and both send the
\* same title and description.
C27_ProvidersAgree ==
    /\ githubFound # <<>> /\ gitlabFound # <<>> =>
           LET gh == githubFound[1]
               gl == gitlabFound[1]
           IN  /\ gh = NoPR <=> gl = NoPR
               /\ gh = NoPR <=>
                      ~providerInput.ok \/ providerInput.open = <<>>
               /\ gh # NoPR =>
                      /\ gh.number = providerInput.open[1].id
                      /\ gl.iid = providerInput.open[1].id
                      /\ gh.title = providerInput.open[1].title
                      /\ gl.title = gh.title
                      /\ gl.body = gl.description
                      /\ gl.body = gh.body
                      /\ gl.html_url = gl.web_url
                      /\ gl.html_url = gh.html_url
    /\ githubSent # <<>> /\ gitlabSent # <<>> =>
           LET gh == githubSent[1].requests
               gl == gitlabSent[1].requests
               supplied == providerInput.useExisting /\ githubFound[1] # NoPR
           IN  /\ Len(gh) = 1 /\ Len(gl) = 1
               /\ gh[1].method = "PATCH" <=> supplied
               /\ gl[1].method = "PUT" <=> supplied
               /\ ~supplied =>
                      /\ gh[1].method = "POST" /\ gh[1].pr = 0
                      /\ gl[1].method = "POST" /\ gl[1].mr = 0
               /\ supplied =>
                      /\ gh[1].pr = providerInput.open[1].id
                      /\ gl[1].mr = providerInput.open[1].id
               /\ gh[1].data.title = providerInput.title
               /\ gl[1].data.title = providerInput.title
               /\ gh[1].data.body = providerInput.description
               /\ gl[1].data.description = providerInput.description
               /\ githubSent[1].threw = gitlabSent[1].threw

\* both providers updated the first of two open requests
C27_Witness ==
    /\ githubSent # <<>>
    /\ gitlabSent # <<>>
    /\ Len(providerInput.open) = 2
    /\ githubSent[1].requests[1].method = "PATCH"
    /\ gitlabSent[1].requests[1].method = "PUT"
    /\ gitlabSent[1].requests[1].mr = 8

\* C28: title and description round-trip through the editor buffer: when
\* the editor returns the composed buffer unmodified, the parsed title and
\* description are the ones the buffer was composed of.
C28_BufferRoundTrips ==
    /\ edResult # <<>>
    /\ edReturned[1] = ComposeContent(edInput.title, edInput.description)
    => /\ edResult[1].title = edInput.title
       /\ edResult[1].description = edInput.description

\* the flags of the order that the call finds set in argv, by position
PresentAt(call) ==
    { i \in DOMAIN FlagsOrder(call.include) :
          /\ FlagsOrder(call.include)[i] \in KnownFlags
          /\ call.argv[FlagsOrder(call.include)[i]] }

\* C29: handleCommonCliFlags handles at most one flag per call: the first
\* flag of the include order (by default create-token, create-ai-token,
\* configure-editor, use-model, show-config) that is set in argv; it returns
\* true without invoking the handler of a later flag, and when no listed
\* flag is set it invokes no handler and returns false.
C29_FirstListedFlagWins ==
    cliResult # <<>> =>
        LET r == cliResult[1]
            order == FlagsOrder(cliCall.include)
            present == PresentAt(cliCall)
        IN  /\ cliCall.include = <<>> => order = CommonFlags
            /\ Len(r.invoked) <= 1
            /\ present = {} =>
                   r.invoked = <<>> /\ ~r.returned /\ ~r.threw
            /\ present # {} =>
                   LET first == CHOOSE i \in present :
                                    \A j \in present : i <= j
                   IN  /\ r.invoked =
                              << Handler(order[first], cliCall.toolName) >>
                       /\ ~r.threw => r.returned
                       /\ r.threw <=> ~cliCall.handlerOk

\* show-config listed before use-model, both set: only the configuration
\* is shown
C29_Witness ==
    /\ cliResult # <<>>
    /\ cliCall.include = << "show-config", "use-model" >>
    /\ cliCall.argv["use-model"]
    /\ cliCall.argv["show-config"]
    /\ cliResult[1].invoked = << "showCurrentConfig" >>
    /\ cliResult[1].returned

\* C31: the lookup is performed exactly once per run, before any generator
\* call, editor call or prompt; its value (the first open request or null)
\* is the one the gate is shown for and the one every Save request is
\* addressed to: PATCH of that request when there is one, POST otherwise.
C31_LookupOnceAndItsValueIsUsed ==
    /\ lookupCalls <= 1
    /\ (lookupCalls = 0) <=> (pc = "start")
    /\ lookupCalls = 0 =>
        /\ genCalls = 0
        /\ bridgeCalls = 0
        /\ firstPrompt = "none"
        /\ providerCalls = <<>>
    /\ lookupCalls = 1 =>
        existingPR = IF lookupResponse.ok /\ lookupResponse.pulls # <<>>
                     THEN lookupResponse.pulls[1]
                     ELSE NoPR
    /\ (firstPrompt = "gate") <=> (lookupCalls = 1 /\ existingPR # NoPR
                                     /\ lastOp # "lookup")
    /\ \A i \in DOMAIN providerCalls :
        IF existingPR # NoPR
        THEN /\ providerCalls[i].method = "PATCH"
             /\ providerCalls[i].pr = existingPR.number
        ELSE providerCalls[i].method = "POST"

C31_Witness ==
    /\ pc = "done"
    /\ outcome = "saved"
    /\ lookupCalls = 1
    /\ existingPR = PR1
    /\ firstPrompt = "gate"
    /\ genCalls >= 2
    /\ lastEdit # NoDraft
    /\ Len(providerCalls) = 1
    /\ providerCalls[1].method = "PATCH"
    /\ providerCalls[1].pr = 7

\* C34: the invalid-input message names the range of the menu on offer:
\* 1-4 while hasChanges is false, input 5 included, and 1-5 while it is true.
C34_InvalidRangeIsOfferedMenu ==
    lastOp = "invalid" =>
        /\ lastMenu = "review"
        /\ pc = "review"
        /\ invalidRange = IF hasChanges THEN "1-5" ELSE "1-4"

C34_Witness ==
    /\ lastOp = "invalid"
    /\ lastChoice = <<"5">>
    /\ ~hasChanges
    /\ invalidRange = "1-4"
    /\ lastEdit # NoDraft

C38_SaveBranchesAreLookupBranches ==
    /\ lookupCalls = 1 =>
        /\ lookedUp.sourceBranch = IF remoteSourceBranch # ""
                                   THEN remoteSourceBranch ELSE SourceBranch
        /\ lookedUp.targetBranch = IF remoteTargetBranch # ""
                                   THEN remoteTargetBranch ELSE TargetBranch
    /\ \A i \in DOMAIN providerCalls :
        providerCalls[i].method = "POST" =>
            /\ providerCalls[i].data.head = lookedUp.sourceBranch
            /\ providerCalls[i].data.base = lookedUp.targetBranch

C38_Witness ==
    /\ lastOp = "save"
    /\ Len(providerCalls) = 1
    /\ providerCalls[1].method = "POST"
    /\ providerCalls[1].data.head = "tracked"
    /\ providerCalls[1].data.base = "main"
    /\ lookedUp = [sourceBranch |-> "tracked", targetBranch |-> "main"]
    /\ genCalls >= 2
    /\ lastManual # NoDraft

\* C39: manual entry keeps a field whose answer is empty, replaces a field
\* whose answer is not, and sets hasChanges in every case, two empty
\* answers included.
C39_ManualEntryKeepsOnEmpty ==
    [][lastOp' \in { "manual", "manual_after_error" } =>
        /\ currentResult'.title = IF lastManual'.title = <<>>
                                  THEN currentResult.title
                                  ELSE lastManual'.title
        /\ currentResult'.description = IF lastManual'.description = <<>>
                                        THEN currentResult.description
                                        ELSE lastManual'.description
        /\ hasChanges']_vars

C39_Witness ==
    /\ lastOp = "manual"
    /\ lastManual = [title |-> <<>>, description |-> <<>>]
    /\ hasChanges
    /\ currentResult = originalResult
    /\ currentResult \in GenResults

\* git says that the branch has an upstream and is neither ahead of it nor
\* behind it
InSync(git) ==
    /\ git.upstreamRef # <<>>
    /\ git.revList.ok
    /\ git.revList.left = 0
    /\ git.revList.right = 0

\* C35: executePRWorkflow is called only when the source and the target
\* branch both have an upstream with ahead = 0 and behind = 0 and resolve
\* to different commits; when a check fails the process ends with code 1
\* and the workflow, hence its lookup, generator and provider, is not called.
C35_WorkflowOnlyAfterSyncChecks ==
    /\ workflowCall.called =>
        /\ mainPc = "workflow"
        /\ InSync(gitSource)
        /\ InSync(gitTarget)
        /\ gitSource.revParse.ok
        /\ gitTarget.revParse.ok
        /\ gitSource.revParse.sha # gitTarget.revParse.sha
    /\ mainPc = "workflow" => workflowCall.called
    /\ ~InSync(gitSource) => mainPc \in { "source", "exited" }
    /\ ~InSync(gitTarget) => mainPc \in { "source", "target", "exited" }
    /\ gitSource.revParse.sha = gitTarget.revParse.sha =>
        mainPc \in { "source", "target", "compare", "exited" }
    /\ mainPc = "exited" =>
        /\ mainExit = 1
        /\ ~workflowCall.called
        /\ lookupCalls = 0
        /\ genCalls = 0
        /\ providerCalls = <<>>

C35_Witness ==
    /\ mainPc = "workflow"
    /\ workflowCall.called
    /\ workflowCall.remoteSourceBranch = << "team", "x" >>
    /\ workflowCall.remoteTargetBranch = << "feature" >>
    /\ workflowCall.remoteName = "fork"
    /\ gitSource.revParse.sha = "a"
    /\ gitTarget.revParse.sha = "b"

\* the sections of the prompt that come from git
GitSectionNames ==
    { "commits", "commits:none", "files", "files:none", "diff", "diff:none" }

PromptHas(section) == \E i \in DOMAIN pgPrompt : pgPrompt[i] = section

\* C36: the enabled fetches are all started before Promise.all is awaited;
\* when one of them fails the prompt has no commit, changed-files or diff
\* section, but it is returned, with its header, its previous-result,
\* instructions and JIRA parts and its closing instructions, and nothing
\* is thrown.
C36_FailedFetchDropsGitSections ==
    /\ pgPc \in { "idle", "called", "awaiting", "returned" }
    /\ pgPc \in { "awaiting", "returned" } =>
        \A s \in Slots : (pgFetch[s].state # "off") <=> SlotEnabled(pgCall, s)
    /\ pgPc = "returned" =>
        /\ pgPrompt[1] = "header"
        /\ pgPrompt[Len(pgPrompt)] = "closing"
        /\ PromptHas("previous") <=> pgCall.previousResult
        /\ PromptHas("instructions") <=>
               (\E i \in DOMAIN pgCall.additionalInstructions :
                    ~IsSpace(pgCall.additionalInstructions[i]))
        /\ PromptHas("jira") <=> pgCall.jiraTickets # <<>>
        /\ (\E s \in Slots : pgFetch[s].state = "rejected") =>
               /\ \A i \in DOMAIN pgPrompt : pgPrompt[i] \notin GitSectionNames
               /\ pgWarned

C36_Witness ==
    /\ pgPc = "returned"
    /\ pgFetch["commits"] = [state |-> "resolved", value |-> "some"]
    /\ pgFetch["files"].state = "pending"
    /\ pgFetch["diff"].state = "rejected"
    /\ pgPrompt = << "header", "previous", "instructions", "jira", "closing" >>

\* C33: at most one operation is outstanding; while the review menu waits
\* for the choice nothing but its prompt is outstanding and the draft is
\* the one the menu was rendered for; and the draft and hasChanges change
\* only in the handler of the option chosen (2, 3 or 4).
C33_OneOperationAtATime ==
    /\ [](/\ Cardinality(awOutstanding) <= 1
          /\ awAt \notin { "idle", "done" } => Cardinality(awOutstanding) = 1
          /\ awAt = "menu" =>
                /\ awOutstanding = { "prompt" }
                /\ awDraft = awDraftAtPrompt)
    /\ [][(awDraft # "none"
            /\ (awDraft' # awDraft \/ awHasChanges' # awHasChanges)) =>
              \/ awChoice' = "2"
                 /\ awAt \in { "edit_editor", "manual_description" }
              \/ awChoice' = "3" /\ awAt = "regenerate_generator"
              \/ awChoice' = "4" /\ awAt = "menu"]_vars

C33_Witness ==
    /\ awAt = "menu"
    /\ awOutstanding = { "prompt" }
    /\ awChoice = "3"
    /\ awHasChanges
    /\ awDraft = "g2"
    /\ awOriginal = "g1"
    /\ awFound

\* C32: when every awaited operation returns and the user comes to choose
\* Save or Cancel, the run ends; it ends in one of the terminal states
\* (Save dispatched, cancelled, error) with nothing outstanding, and no
\* step follows the end.
C32_RunEndsOnceAndForAll ==
    /\ <>(awAt = "done")
    /\ [](/\ (awAt = "done") <=> (awOutcome # "running")
          /\ awAt = "done" =>
                /\ awOutcome \in { "saved", "save_failed", "cancelled", "error" }
                /\ awOutstanding = {})
    /\ [][awAt # "done"]_vars

C32_Witness ==
    /\ awAt = "done"
    /\ awOutcome = "cancelled"
    /\ awChoice = "5"
    /\ awHasChanges
    /\ awOutstanding = {}

====
